---- MODULE Spec2Model ----
(***************************************************************************)
(* A model of bioptim's BiorbdModel adapter                                *)
(* (src/bioptim/interfaces/biorbd_model.py).                               *)
(*                                                                         *)
(* The adapter holds one reference, self.model, to a native biorbd model.  *)
(* The state of the model below is the adapter's attributes, the argument  *)
(* it was constructed from, that native model (its fixed structure, its    *)
(* gravity and its cached kinematics) and a record of the last adapter     *)
(* operation: its name, its arguments, the value it returned or the fact   *)
(* that it raised, and the engine calls it made.                           *)
(*                                                                         *)
(* The engine is outside the repository.  Its calls are stood for by       *)
(* operators whose values depend on what the engine's values depend on;    *)
(* the call of an operation at which the engine fails, if it fails, is     *)
(* fixed along a behaviour (failAt).                                       *)
(*                                                                         *)
(* Spec walks the structural operations over a wide family of models,      *)
(* AdapterSpec the operations of one adapter over a few models built in    *)
(* both ways, FaultSpec the operations that compute with the engine while  *)
(* the engine fails at one of their calls, KinematicsSpec the queries that *)
(* take the update flag, ConstructorSpec the constructor and CopySpec an   *)
(* adapter with the copies deep_copy makes of it.                          *)
(*                                                                         *)
(* Python sequences are 0-based and TLA+ sequences 1-based: a Python index *)
(* i names element i + 1 of the TLA+ sequence.  The conversions are        *)
(* written out wherever the code indexes.                                  *)
(***************************************************************************)
EXTENDS Integers, Sequences, FiniteSets, TLC

\* ------------------------------------------------------------------ bounds

\* The largest number of rigid contacts of a model.
MaxRigidContacts == 2
\* The largest number of soft contacts of a model.
MaxSoftContacts == 2
\* How many elements a flat force vector may hold beyond the sum of the
\* rigid contacts' axis counts.
MaxExtra == 1

\* The largest number of copies made of an adapter.
MaxCopies == 1

\* The axis index lists a rigid contact may have ("z", "xyz").
AxisLists == {<<2>>, <<0, 1, 2>>}
\* A name no marker has.
AbsentName == "none"
\* Generalized coordinates and velocities are opaque to the adapter, which
\* only forwards them: a small set of tokens stands for each.
Configs == {0, 1}
Velocities == {0, 1}
\* The flat force vectors are ramps base + 1, base + 2, ..., so that every
\* position holds a value of its own, which is not its index.
FextBases == {10}

\* A name held by the native model: a biorbd String object, not a str.
String(chars) == [type |-> "biorbd.String", chars |-> chars]

\* The bodies of the models: the segments, root first, the markers and the
\* muscles.  A "fixed" segment has no degree of freedom, a "rot" segment one
\* rotation, a "quat" segment is parameterized by a quaternion.  Two markers
\* may share a name.
BodyLayouts ==
    { [segments |-> <<"fixed">>, markers |-> <<>>, muscles |-> <<>>],
      [segments |-> <<"rot">>, markers |-> <<String("m0"), String("m0")>>,
       muscles |-> <<String("biceps")>>],
      [segments |-> <<"fixed", "rot">>, markers |-> <<String("m0")>>,
       muscles |-> <<>>],
      [segments |-> <<"rot", "quat">>, markers |-> <<String("m0"), String("m1")>>,
       muscles |-> <<String("triceps"), String("biceps")>>],
      [segments |-> <<"fixed", "quat", "rot">>,
       markers |-> <<String("m1"), String("m0"), String("m1")>>,
       muscles |-> <<String("triceps"), String("biceps")>>] }
MarkerNameSet == {"m0", "m1"}

\* Python's None.
None == "None"

\* ----------------------------------------------------------------- helpers

SeqsUpTo(S, n) == UNION { [1..k -> S] : k \in 0..n }

RECURSIVE SumLen(_)
SumLen(lists) ==
    IF lists = <<>> THEN 0 ELSE Len(Head(lists)) + SumLen(Tail(lists))

RECURSIVE Concat(_)
Concat(blocks) ==
    IF blocks = <<>> THEN <<>> ELSE Head(blocks) \o Concat(Tail(blocks))

Ramp(base, n) == [i \in 1..n |-> base + i]

\* ------------------------------------------------------------------- state

VARIABLES
    bio_model,  \* the argument the adapter was constructed from
    adapter,    \* the attributes of the adapter: its reference to a native model
    model,      \* self.model: the native model wrapped by the adapter
    engineGravity, \* the gravity the native model holds
    kinQ,       \* the coordinates at which the native model's cached kinematics were computed
    failAt,     \* which engine call of an operation fails, counted from 1; 0 when none does
    op,         \* the last adapter operation
    args,       \* its arguments
    result,     \* the value it returned (None when it raised)
    raised,     \* "none", or the kind of error that left the operation
    calls,      \* the engine calls it made, in order
    copies      \* the adapters deep_copy returned, each with the native model it wraps

vars == <<bio_model, adapter, model, engineGravity, kinQ, failAt, op, args, result, raised,
          calls, copies>>

Models ==
    { [ rigidContactAxes |-> axes, nbSoftContacts |-> nsc,
        segments |-> body.segments, markers |-> body.markers,
        muscles |-> body.muscles ] :
        axes \in SeqsUpTo(AxisLists, MaxRigidContacts),
        nsc \in 0..MaxSoftContacts,
        body \in BodyLayouts }

\* ------------------------------------------------------------ construction

\* A Python str.
Str(chars) == [type |-> "str", chars |-> chars]

\* A handle to a native model: the identity of the object it refers to.
NativeModel(id) == [type |-> "biorbd.Model", id |-> id]

\* The native model a caller built before constructing the adapter from it.
CallerModel == NativeModel("the caller's")

\* The model definition files: what the engine builds from each path.
ModelFiles ==
    [ path \in {"pendulum.bioMod", "arm.bioMod"} |->
        IF path = "pendulum.bioMod"
        THEN [ rigidContactAxes |-> <<>>, nbSoftContacts |-> 0,
               segments |-> <<"rot">>,
               markers |-> <<String("m0"), String("m0")>>,
               muscles |-> <<String("biceps")>> ]
        ELSE [ rigidContactAxes |-> << <<2>>, <<0, 1, 2>> >>, nbSoftContacts |-> 2,
               segments |-> <<"fixed", "quat", "rot">>,
               markers |-> <<String("m1"), String("m0"), String("m1")>>,
               muscles |-> <<String("triceps"), String("biceps")>> ] ]

\* The structures of the native models a caller hands over.
CallerModels == { ModelFiles[path] : path \in DOMAIN ModelFiles }

\* What an adapter may be constructed from.
CtorArgs == { Str(path) : path \in DOMAIN ModelFiles } \cup {CallerModel}

\* The gravity a model holds when it is built, and the gravities a caller
\* sets.
ModelGravity == <<0, 0, -10>>
Gravities == {<<0, 0, -10>>, <<0, 0, -2>>}

\* isinstance(bio_model, str)
isinstance_str(x) == x.type = "str"

\* biorbd.Model(path): the engine reads the file and returns a new native
\* model, an object no caller holds
biorbd_Model(path) == NativeModel("built from " \o path.chars)

\* BiorbdModel.__init__(bio_model): the attributes of the new adapter
BiorbdModelCopying(arg) ==
    [ model |-> IF isinstance_str(arg) THEN biorbd_Model(arg)
                ELSE NativeModel("a copy of " \o arg.id) ]
BiorbdModelFromPathLike(arg) ==
    [ model |-> IF arg.type \in {"str", "pathlib.Path"} THEN biorbd_Model(arg) ELSE arg ]
BiorbdModel(arg) ==
    [ model |-> IF isinstance_str(arg) THEN biorbd_Model(arg) ELSE arg ]

\* A pathlib.Path object, and the other objects a caller may hand to the
\* constructor in place of a path or a native model.
PathObject(chars) == [type |-> "pathlib.Path", chars |-> chars]
OtherObjects == { [type |-> "int", val |-> 0], [type |-> "NoneType"] }

\* The paths a caller names: those of the model files and one of no file.
Paths == DOMAIN ModelFiles \cup {"missing.bioMod"}

\* Everything the constructor may be called with.
AnyCtorArgs ==
    { Str(path) : path \in Paths } \cup { PathObject(path) : path \in Paths }
        \cup {CallerModel} \cup OtherObjects

\* The call BiorbdModel(bio_model): the attributes of the new adapter and the
\* calls of the engine's loader made.  The loader raises for a path of no
\* file; nothing else in the constructor can raise.
Construction(arg) ==
    IF isinstance_str(arg)
    THEN IF arg.chars \in DOMAIN ModelFiles
         THEN [ raised |-> "none", self |-> BiorbdModel(arg),
                calls |-> << <<"biorbd.Model", arg.chars>> >> ]
         ELSE [ raised |-> "RuntimeError: biorbd.Model", self |-> None,
                calls |-> << <<"biorbd.Model", arg.chars>> >> ]
    ELSE [ raised |-> "none", self |-> BiorbdModel(arg), calls |-> <<>> ]

\* What self.model refers to after BiorbdModel(arg): the structure of a
\* native model, or an object that is no model.
StructuresBehind(arg) ==
    IF isinstance_str(arg) THEN {ModelFiles[arg.chars]}
    ELSE IF arg.type = "biorbd.Model" THEN Models
    ELSE {[type |-> arg.type]}

\* self.model.DeepCopy(*args): the engine returns a new native model, the
\* n-th copy made of the one the handle refers to, holding what that one holds
DeepCopy(handle, n) == NativeModel("copy " \o ToString(n) \o " of " \o handle.id)

\* deep_copy(*args): BiorbdModel(self.model.DeepCopy(*args)), the attributes
\* of the adapter returned
deep_copy_sharing(self, n) ==
    [ raised |-> "none", value |-> BiorbdModel(self.model), calls |-> <<>> ]
deep_copy(self, n) ==
    [ raised |-> "none", value |-> BiorbdModel(DeepCopy(self.model, n)),
      calls |-> << <<"DeepCopy">> >> ]

\* ----------------------------------------------------------- engine errors

\* The largest position, among the engine calls of one operation, of the
\* call that fails.
MaxFailAt == 6

\* Whether the n-th engine call of the running operation fails.
EngineFails(n) == failAt = n

\* The error the engine raises from a call.
EngineError(name) == "RuntimeError: " \o name

\* ------------------------------------------------- counts and rigid contacts

\* self.model.nbRigidContacts()
nb_rigid_contacts == Len(model.rigidContactAxes)

\* self.model.rigidContactAxisIdx(ii), ii a Python index
rigidContactAxisIdx(ii) == model.rigidContactAxes[ii + 1]

\* idx = [i + count for i in range(n_f_contact)]
IdxNoOffset(count, n_f_contact) == [i \in 1..n_f_contact |-> (i - 1)]
Idx(count, n_f_contact) == [i \in 1..n_f_contact |-> (i - 1) + count]

\* count = count + n_f_contact
CountPlusOne(count, n_f_contact) == count + 1
NextCount(count, n_f_contact) == count + n_f_contact

\* fext[idx]: casadi's indexing of a column vector by a list of Python
\* indices; an index outside the vector is an error.
MXInRange(fext, idx) == \A j \in 1..Len(idx) : idx[j] >= 0 /\ idx[j] < Len(fext)
MXGetItem(fext, idx) == [j \in 1..Len(idx) |-> fext[idx[j] + 1]]

\* for ii in range(stop): the loop of reshape_fext_to_fcontact from contact
\* ii on, with the engine calls made so far
RECURSIVE ReshapeLoop(_, _, _, _, _, _)
ReshapeLoop(fext, ii, stop, count, f_contact_vec, made) ==
    IF ii >= stop
    THEN [raised |-> "none", value |-> f_contact_vec, calls |-> made]
    ELSE LET n_f_contact == Len(rigidContactAxisIdx(ii))
             idx == Idx(count, n_f_contact)
             now == Append(made, <<"rigidContactAxisIdx", ii>>)
         IN  IF ~MXInRange(fext, idx)
             THEN [raised |-> "IndexError", value |-> None, calls |-> now]
             ELSE ReshapeLoop(fext, ii + 1, stop, NextCount(count, n_f_contact),
                              Append(f_contact_vec, MXGetItem(fext, idx)), now)

reshape_one_short(fext) ==
    ReshapeLoop(fext, 0, nb_rigid_contacts - 1, 0, <<>>, <<<<"nbRigidContacts">>>>)
reshape_checking_length(fext) ==
    IF Len(fext) # SumLen(model.rigidContactAxes)
    THEN [raised |-> "ValueError", value |-> None, calls |-> <<<<"nbRigidContacts">>>>]
    ELSE ReshapeLoop(fext, 0, nb_rigid_contacts, 0, <<>>, <<<<"nbRigidContacts">>>>)
reshape_fext_to_fcontact(fext) ==
    ReshapeLoop(fext, 0, nb_rigid_contacts, 0, <<>>, <<<<"nbRigidContacts">>>>)

\* ------------------------------------------------------------ soft contacts

\* The rows of one soft contact's wrench at the origin.
WrenchSize == 6

\* A casadi matrix, the framework's matrix type.
MX(val) == [type |-> "MX", val |-> val]

\* x.to_mx(): the casadi matrix holding a native vector's components
to_mx(x) == MX(x.val)

\* self.model.nbSoftContacts()
nb_soft_contacts == model.nbSoftContacts

\* self.model.softContact(i_sc): the native soft contact at a Python index
SoftContactFirst(i_sc) == [type |-> "biorbd.SoftContactNode", index |-> 0]
soft_contact(i_sc) == [type |-> "biorbd.SoftContactNode", index |-> i_sc]

\* biorbd.SoftContactSphere(soft_contact).computeForceAtOrigin(self.model, q, qdot):
\* the engine's contact law is outside the repository; this stands for it with
\* a wrench that depends on the contact, on q and on qdot, and has components
\* that are zero.  The engine recomputes its kinematics at q (its own default).
computeForceAtOrigin(sphere, q, qdot) ==
    [ kin   |-> q,
      value |-> [ type |-> "biorbd.SpatialVector",
                  val  |-> [k \in 1..WrenchSize |->
                              IF k % 2 = 0 THEN qdot
                              ELSE (sphere.index + 1) * k * q] ] ]

\* MX.zeros(rows, 1)
MXZeros(rows) == MX([r \in 1..rows |-> 0])

\* soft_contact_forces[start:stop, :] = rhs, start and stop Python indices
SetSliceFits(m, start, stop, rhs) ==
    0 <= start /\ start <= stop /\ stop <= Len(m.val) /\ Len(rhs.val) = stop - start
SetSlice(m, start, stop, rhs) ==
    MX([r \in 1..Len(m.val) |->
          IF start < r /\ r <= stop THEN rhs.val[r - start] ELSE m.val[r]])

\* the rows MX.zeros is asked for
SoftForceRowsOneMore == (nb_soft_contacts + 1) * WrenchSize
SoftForceRows == nb_soft_contacts * WrenchSize

\* An operation left by the error of the engine call it made last: nothing
\* is returned, and the engine's kinematics are as they were before the call.
Raise(name, kin, made) ==
    [raised |-> EngineError(name), value |-> None, kin |-> kin, calls |-> made]

\* for i_sc in range(self.nb_soft_contacts): the loop of soft_contact_forces
\* from contact i_sc on
RECURSIVE SoftContactLoop(_, _, _, _, _, _)
SoftContactLoop(kin, q, qdot, i_sc, soft_contact_forces_, made) ==
    IF i_sc >= nb_soft_contacts
    THEN [raised |-> "none", value |-> soft_contact_forces_, kin |-> kin, calls |-> made]
    ELSE LET sc == soft_contact(i_sc)
             f == computeForceAtOrigin(sc, q, qdot)
             rhs == to_mx(f.value)
             asked == Append(made, <<"softContact", i_sc>>)
             now == made \o << <<"softContact", i_sc>>,
                               <<"computeForceAtOrigin", sc.index>> >>
             start == i_sc * WrenchSize
             stop == (i_sc + 1) * WrenchSize
         IN  IF EngineFails(Len(asked)) THEN Raise("softContact", kin, asked)
             ELSE IF EngineFails(Len(now)) THEN Raise("computeForceAtOrigin", kin, now)
             ELSE IF ~SetSliceFits(soft_contact_forces_, start, stop, rhs)
             THEN [raised |-> "RuntimeError", value |-> None, kin |-> f.kin, calls |-> now]
             ELSE SoftContactLoop(f.kin, q, qdot, i_sc + 1,
                                  SetSlice(soft_contact_forces_, start, stop, rhs), now)

\* self.nb_soft_contacts is read twice, for the rows and for the range
soft_contact_forces(kin, q, qdot) ==
    IF EngineFails(1) THEN Raise("nbSoftContacts", kin, << <<"nbSoftContacts">> >>)
    ELSE IF EngineFails(2)
    THEN Raise("nbSoftContacts", kin, << <<"nbSoftContacts">>, <<"nbSoftContacts">> >>)
    ELSE SoftContactLoop(kin, q, qdot, 0, MXZeros(SoftForceRows),
                         << <<"nbSoftContacts">>, <<"nbSoftContacts">> >>)

\* ------------------------------------------------- markers and kinematics

\* Python's None as the reference_jcs argument, which is otherwise the Python
\* index of a segment.
RefNone == -1

I3 == << <<1, 0, 0>>, <<0, 1, 0>>, <<0, 0, 1>> >>
RotZ90 == << <<0, -1, 0>>, <<1, 0, 0>>, <<0, 0, 1>> >>
RotX90 == << <<1, 0, 0>>, <<0, 0, -1>>, <<0, 1, 0>> >>

MatVec(R, v) == [i \in 1..3 |-> R[i][1] * v[1] + R[i][2] * v[2] + R[i][3] * v[3]]
MatT(R) == [i \in 1..3 |-> [j \in 1..3 |-> R[j][i]]]
VecAdd(u, v) == [i \in 1..3 |-> u[i] + v[i]]
VecNeg(v) == [i \in 1..3 |-> 0 - v[i]]

\* A homogeneous transform: a rotation R and a translation t.
RotoTrans(R, t) == [type |-> "biorbd.RotoTrans", R |-> R, t |-> t]

\* biorbd.RotoTrans(): the identity transform
RotoTransIdentity == RotoTrans(I3, <<0, 0, 0>>)

\* rt.transpose(): the engine transposes the rotation and maps the
\* translation through it, which inverts the transform
transpose(rt) == RotoTrans(MatT(rt.R), VecNeg(MatVec(MatT(rt.R), rt.t)))

\* self.model.nbSegment()
nb_segments == Len(model.segments)

\* The pose of the segment at a Python index for the coordinates q.  The
\* engine's forward kinematics are outside the repository; this stands for
\* them with poses that depend on the segment and on q: a "fixed" segment
\* stays at the identity, a "rot" segment is at the identity for q = 0 only.
SegmentJCS(idx, q) ==
    LET kind == model.segments[idx + 1]
    IN  CASE kind = "fixed" -> RotoTransIdentity
          [] kind = "rot"   -> IF q = 0 THEN RotoTransIdentity
                               ELSE RotoTrans(RotZ90, <<1, 0, 0>>)
          [] kind = "quat"  -> IF q = 0 THEN RotoTrans(RotX90, <<0, 0, 1>>)
                               ELSE RotoTrans(I3, <<0, 1, 0>>)

\* self.model.globalJCS(q, idx): the engine recomputes its kinematics at q
\* (no flag is passed, so its own default applies) and returns the pose.
globalJCS(kin, q, idx) == [kin |-> q, value |-> SegmentJCS(idx, q)]

\* global_homogeneous_matrices(*args) forwards its arguments
global_homogeneous_matrices(kin, q, idx) == globalJCS(kin, q, idx)

\* self.model.nbMarkers()
nb_markers == Len(model.markers)

\* self.model.markersVelocity(q, qdot, update_kin): with the flag the engine
\* recomputes its kinematics at q, without it it reads the kinematics it
\* holds.  The velocities stand for the engine's: one vector per marker, in
\* marker order, depending on the marker, the kinematics and qdot.
markersVelocity(kin, q, qdot, update_kin) ==
    LET at == IF update_kin THEN q ELSE kin
    IN  [ kin   |-> at,
          value |-> [m \in 1..nb_markers |->
                       [type |-> "biorbd.NodeSegment", val |-> <<m, at + 1, qdot>>]] ]

\* m.applyRT(rt): transforms the native vector in place and returns None
applyRTReturnsSelf(m, rt) ==
    [ ret |-> "biorbd.NodeSegment",
      m   |-> [type |-> m.type, val |-> VecAdd(MatVec(rt.R, m.val), rt.t)] ]
applyRT(m, rt) ==
    [ ret |-> None,
      m   |-> [type |-> m.type, val |-> VecAdd(MatVec(rt.R, m.val), rt.t)] ]

\* [m.to_mx() for m in ms if m.applyRT(jcs_t) is None]
RECURSIVE TransformedColumns(_, _)
TransformedColumns(ms, jcs_t) ==
    IF ms = <<>> THEN <<>>
    ELSE LET a == applyRT(Head(ms), jcs_t)
             rest == TransformedColumns(Tail(ms), jcs_t)
         IN  IF a.ret = None THEN <<to_mx(a.m)>> \o rest ELSE rest

\* horzcat(*columns)
horzcat(columns) == MX([k \in 1..Len(columns) |-> columns[k].val])

\* The transform each m.applyRT(jcs_t) of the comprehension is called with,
\* in the order of the calls.
AppliedTransforms(ms, jcs_t) == [k \in 1..Len(ms) |-> jcs_t]

\* marker_velocities(q, qdot, update_kin, reference_jcs): the velocities in
\* the world frame, or in the frame of the segment at a Python index, with
\* the transforms the velocities were composed with (composed)
marker_velocities_world_on_failure(kin, q, qdot, update_kin, reference_jcs) ==
    LET mv == markersVelocity(kin, q, qdot, update_kin)
        unframed == [ raised |-> "none",
                      value  |-> horzcat([k \in 1..Len(mv.value) |-> to_mx(mv.value[k])]),
                      kin    |-> mv.kin,
                      calls  |-> << <<"markersVelocity", update_kin>> >> ]
    IN  IF reference_jcs = RefNone
        THEN IF EngineFails(1) THEN Raise("markersVelocity", kin, unframed.calls)
             ELSE unframed
        ELSE LET g == global_homogeneous_matrices(kin, q, reference_jcs)
                 jcs_t == transpose(g.value)
                 framed == markersVelocity(g.kin, q, qdot, update_kin)
                 made == << <<"globalJCS", reference_jcs>>,
                            <<"markersVelocity", update_kin>> >>
             IN  IF EngineFails(1)
                 THEN [unframed EXCEPT !.calls = << <<"globalJCS", reference_jcs>> >>
                                                   \o unframed.calls]
                 ELSE IF EngineFails(2) THEN Raise("markersVelocity", g.kin, made)
                 ELSE [ raised |-> "none",
                        value  |-> horzcat(TransformedColumns(framed.value, jcs_t)),
                        kin    |-> framed.kin,
                        calls  |-> made ]
marker_velocities_composing_always(kin, q, qdot, update_kin, reference_jcs) ==
    LET g == global_homogeneous_matrices(kin, q, reference_jcs)
        jcs_t == IF reference_jcs = RefNone THEN RotoTransIdentity
                 ELSE transpose(g.value)
        mv == markersVelocity(IF reference_jcs = RefNone THEN kin ELSE g.kin,
                              q, qdot, update_kin)
        made == (IF reference_jcs = RefNone THEN <<>>
                 ELSE << <<"globalJCS", reference_jcs>> >>)
                    \o << <<"markersVelocity", update_kin>> >>
    IN  IF EngineFails(1) THEN Raise(made[1][1], kin, <<made[1]>>)
        ELSE IF EngineFails(2) /\ Len(made) = 2 THEN Raise("markersVelocity", g.kin, made)
        ELSE [ raised   |-> "none",
               value    |-> horzcat(TransformedColumns(mv.value, jcs_t)),
               kin      |-> mv.kin,
               calls    |-> made,
               composed |-> AppliedTransforms(mv.value, jcs_t) ]
marker_velocities(kin, q, qdot, update_kin, reference_jcs) ==
    IF reference_jcs = RefNone
    THEN LET mv == markersVelocity(kin, q, qdot, update_kin)
             made == << <<"markersVelocity", update_kin>> >>
         IN  IF EngineFails(1) THEN Raise("markersVelocity", kin, made)
             ELSE [ raised |-> "none",
                    value  |-> horzcat([k \in 1..Len(mv.value) |-> to_mx(mv.value[k])]),
                    kin    |-> mv.kin,
                    calls  |-> made,
                    composed |-> <<>> ]
    ELSE LET g == global_homogeneous_matrices(kin, q, reference_jcs)
             jcs_t == IF reference_jcs = RefNone THEN RotoTransIdentity
                      ELSE transpose(g.value)
             mv == markersVelocity(g.kin, q, qdot, update_kin)
             made == << <<"globalJCS", reference_jcs>>,
                        <<"markersVelocity", update_kin>> >>
         IN  IF EngineFails(1) THEN Raise("globalJCS", kin, << <<"globalJCS", reference_jcs>> >>)
             ELSE IF EngineFails(2) THEN Raise("markersVelocity", g.kin, made)
             ELSE [ raised |-> "none",
                    value  |-> horzcat(TransformedColumns(mv.value, jcs_t)),
                    kin    |-> mv.kin,
                    calls  |-> made,
                    composed |-> AppliedTransforms(mv.value, jcs_t) ]

\* ------------------------------------------------------------------ names

\* s.to_string(): the str a native String holds
to_string(s) == s.chars

\* The names in a tuple, each once, in the order of their first occurrence.
RECURSIVE Distinct(_)
Distinct(names) ==
    IF names = <<>> THEN <<>>
    ELSE LET front == Distinct(SubSeq(names, 1, Len(names) - 1))
             last == names[Len(names)]
         IN  IF \E k \in 1..Len(front) : front[k] = last THEN front
             ELSE Append(front, last)

\* tuple(s.to_string() for s in self.model.markerNames())
marker_names_distinct ==
    Distinct([k \in 1..Len(model.markers) |-> to_string(model.markers[k])])
marker_names == [k \in 1..Len(model.markers) |-> to_string(model.markers[k])]

\* biorbd.marker_index(self.model, name): the Python index of the first
\* marker of that name, a ValueError when no marker has it
marker_index_one_based(name) ==
    LET names == [k \in 1..Len(model.markers) |-> to_string(model.markers[k])]
        hits == { k \in 1..Len(names) : names[k] = name }
    IN  IF hits = {} THEN [raised |-> "ValueError", value |-> None]
        ELSE [raised |-> "none",
              value  |-> CHOOSE k \in hits : \A h \in hits : k <= h]
marker_index(name) ==
    LET names == [k \in 1..Len(model.markers) |-> to_string(model.markers[k])]
        hits == { k \in 1..Len(names) : names[k] = name }
    IN  IF hits = {} THEN [raised |-> "ValueError", value |-> None]
        ELSE [raised |-> "none",
              value  |-> (CHOOSE k \in hits : \A h \in hits : k <= h) - 1]

\* The degrees of freedom of a segment, by name.
SegmentDofs(kind) ==
    CASE kind = "fixed" -> <<>>
      [] kind = "rot"   -> <<"RotZ">>
      [] kind = "quat"  -> <<"QuatX", "QuatY", "QuatZ">>

\* The name of the segment at a Python index.
SegmentName(idx) == "s" \o ToString(idx)

\* self.model.nbQuat()
nb_quaternions == Cardinality({ k \in 1..nb_segments : model.segments[k] = "quat" })

\* self.model.nbQ(): one coordinate per degree of freedom and one more per
\* quaternion
RECURSIVE CountDofs(_)
CountDofs(segments) ==
    IF segments = <<>> THEN 0
    ELSE Len(SegmentDofs(Head(segments))) + CountDofs(Tail(segments))
nb_q == CountDofs(model.segments) + nb_quaternions

\* self.model.nameDof(): the engine names every degree of freedom, segment by
\* segment, and then the fourth component of every quaternion
RECURSIVE DofNames(_)
DofNames(idx) ==
    IF idx >= nb_segments THEN <<>>
    ELSE LET dofs == SegmentDofs(model.segments[idx + 1])
         IN  [j \in 1..Len(dofs) |-> String(SegmentName(idx) \o "_" \o dofs[j])]
               \o DofNames(idx + 1)
RECURSIVE QuatNames(_)
QuatNames(idx) ==
    IF idx >= nb_segments THEN <<>>
    ELSE (IF model.segments[idx + 1] = "quat"
          THEN <<String(SegmentName(idx) \o "_QuatW")>> ELSE <<>>)
            \o QuatNames(idx + 1)
nameDof == DofNames(0) \o QuatNames(0)

\* tuple(s.to_string() for s in self.model.nameDof())
name_dof_rotations_only ==
    [k \in 1..Len(DofNames(0)) |-> to_string(DofNames(0)[k])]
name_dof ==
    LET names == nameDof
    IN  [k \in 1..Len(names) |-> to_string(names[k])]

\* self.model.muscleNames()
muscleNames == model.muscles

\* tuple(s.to_string() for s in self.model.muscleNames())
muscle_names_reversed ==
    [k \in 1..Len(muscleNames) |-> to_string(muscleNames[Len(muscleNames) + 1 - k])]
muscle_names == [k \in 1..Len(muscleNames) |-> to_string(muscleNames[k])]

\* self.model.contactNames(): the engine names every axis of every rigid
\* contact, contact by contact
AxisLetter(axis) == <<"X", "Y", "Z">>[axis + 1]
RECURSIVE ContactAxisNames(_)
ContactAxisNames(ii) ==
    IF ii >= nb_rigid_contacts THEN <<>>
    ELSE LET axes == rigidContactAxisIdx(ii)
         IN  [j \in 1..Len(axes) |->
                 String("contact" \o ToString(ii) \o "_" \o AxisLetter(axes[j]))]
               \o ContactAxisNames(ii + 1)
contactNames == ContactAxisNames(0)

\* tuple(s.to_string() for s in self.model.contactNames())
\* (the variant names the contacts in touch at the cached kinematics only)
contact_names_in_touch == IF kinQ = 0 THEN <<>>
                         ELSE [k \in 1..Len(contactNames) |-> to_string(contactNames[k])]
contact_names ==
    LET names == contactNames
    IN  [k \in 1..Len(names) |-> to_string(names[k])]

\* self.model.softContactNames()
softContactNames == [k \in 1..nb_soft_contacts |-> String("soft" \o ToString(k - 1))]

\* tuple(s.to_string() for s in self.model.softContactNames())
soft_contact_names ==
    LET names == softContactNames
    IN  [k \in 1..Len(names) |-> to_string(names[k])]

\* ------------------------------------------------------------------ counts

\* self.model.nbDof()
nb_dof == CountDofs(model.segments)

\* self.model.nbQdot() and self.model.nbQddot(): one velocity and one
\* acceleration per degree of freedom
nb_qdot == CountDofs(model.segments)
nb_qddot == CountDofs(model.segments)

\* self.model.nbGeneralizedTorque()
nb_tau == CountDofs(model.segments)

\* self.model.nbRoot(): the degrees of freedom of the root segment
nb_root == Len(SegmentDofs(model.segments[1]))

\* self.model.nbMuscles()
nb_muscles == Len(model.muscles)

\* self.model.nbContacts(): the axes of the rigid contacts
nb_contacts == SumLen(model.rigidContactAxes)

\* ----------------------------------------------------- forwarded queries

\* The value a parameter takes: the one the call supplies, else its default.
Bind(arg, default) == IF arg.given THEN arg.value ELSE default

\* The update flag as a call may give it: True, False, or not at all (the
\* value of an argument that is not given is never read).
FlagArgs == { [given |-> TRUE, value |-> TRUE], [given |-> TRUE, value |-> FALSE],
              [given |-> FALSE, value |-> FALSE] }

\* What the engine answers to the n-th engine call of an operation: its error
\* when that call fails, else what the call computes.
Engine(n, name, kin, e) ==
    IF EngineFails(n) THEN [raised |-> EngineError(name), kin |-> kin, value |-> None]
    ELSE [raised |-> "none", kin |-> e.kin, value |-> e.value]

\* return self.model.<call>(...).to_mx(): an error of the engine leaves the
\* operation as it is, a value is converted
ConvertedOrNone(e, call) ==
    [ raised |-> "none",
      value  |-> IF e.raised = "none" THEN to_mx(e.value) ELSE None,
      kin    |-> e.kin,
      calls  |-> <<call>> ]
Converted(e, call) ==
    [ raised |-> e.raised,
      value  |-> IF e.raised = "none" THEN to_mx(e.value) ELSE None,
      kin    |-> e.kin,
      calls  |-> <<call>> ]

\* return self.model.<call>(...): a value is handed on as the engine made it
Forwarded(e, call) ==
    [ raised |-> e.raised,
      value  |-> IF e.raised = "none" THEN e.value ELSE None,
      kin    |-> e.kin,
      calls  |-> <<call>> ]

\* A native vector of n components.
Vector(type, n, x) == [type |-> type, val |-> [k \in 1..n |-> k * x]]

\* ------------------------------------------------------ kinematics queries

\* self.model.CoM(q, updateKin) and the like: with the flag the engine
\* recomputes its kinematics at q, without it it reads the kinematics it
\* holds; the values stand for the engine's and depend on the kinematics and
\* on the other arguments.
CoM(kin, q, updateKin) ==
    LET at == IF updateKin THEN q ELSE kin
    IN  [kin |-> at, value |-> [type |-> "biorbd.Vector3d", val |-> <<at, at + 1, nb_segments>>]]
CoMdot(kin, q, qdot, updateKin) ==
    LET at == IF updateKin THEN q ELSE kin
    IN  [kin |-> at, value |-> [type |-> "biorbd.Vector3d", val |-> <<at, qdot, at * qdot>>]]
CoMddot(kin, q, qdot, qddot, updateKin) ==
    LET at == IF updateKin THEN q ELSE kin
    IN  [kin |-> at, value |-> [type |-> "biorbd.Vector3d", val |-> <<at, qdot, qddot>>]]
angularMomentum(kin, Q, Qdot, updateKin) ==
    LET at == IF updateKin THEN Q ELSE kin
    IN  [kin |-> at, value |-> [type |-> "biorbd.Vector3d", val |-> <<at * Qdot, Qdot, 0>>]]
segmentAngularVelocity(kin, Q, Qdot, idx, updateKin) ==
    LET at == IF updateKin THEN Q ELSE kin
    IN  [kin |-> at, value |-> [type |-> "biorbd.Vector3d", val |-> <<idx, at, Qdot>>]]

\* self.model.markers(q): the positions of the markers, in marker order; the
\* engine recomputes its kinematics at q (its own default)
model_markers(kin, q) ==
    [ kin   |-> q,
      value |-> [m \in 1..nb_markers |->
                   [type |-> "biorbd.NodeSegment", val |-> <<m, q, 0>>]] ]

center_of_mass_always_updating(kin, q, updateKin) ==
    Converted(Engine(1, "CoM", kin, CoM(kin, q, TRUE)), <<"CoM", q, TRUE>>)
center_of_mass(kin, q, updateKin) ==
    LET flag == Bind(updateKin, TRUE)
    IN  Converted(Engine(1, "CoM", kin, CoM(kin, q, flag)), <<"CoM", q, flag>>)

center_of_mass_velocity(kin, q, qdot, updateKin) ==
    LET flag == Bind(updateKin, TRUE)
    IN  Converted(Engine(1, "CoMdot", kin, CoMdot(kin, q, qdot, flag)),
                  <<"CoMdot", q, qdot, flag>>)

center_of_mass_acceleration(kin, q, qdot, qddot, updateKin) ==
    LET flag == Bind(updateKin, TRUE)
    IN  Converted(Engine(1, "CoMddot", kin, CoMddot(kin, q, qdot, qddot, flag)),
                  <<"CoMddot", q, qdot, qddot, flag>>)

angular_momentum(kin, Q, Qdot, updateKin) ==
    LET flag == Bind(updateKin, TRUE)
    IN  Forwarded(Engine(1, "angularMomentum", kin, angularMomentum(kin, Q, Qdot, flag)),
                  <<"angularMomentum", Q, Qdot, flag>>)

segment_angular_velocity(kin, Q, Qdot, idx, updateKin) ==
    LET flag == Bind(updateKin, TRUE)
    IN  Forwarded(Engine(1, "segmentAngularVelocity", kin,
                         segmentAngularVelocity(kin, Q, Qdot, idx, flag)),
                  <<"segmentAngularVelocity", Q, Qdot, idx, flag>>)

\* Python's None as the idx argument of rigid_contact_acceleration, which is
\* otherwise the Python index of a rigid contact.
IdxNone == -1

\* The idx argument as a call may give it: the index of the first rigid
\* contact, if the model has one, or not at all.
ContactIdxArgs ==
    { [given |-> FALSE, value |-> IdxNone] }
        \cup { [given |-> TRUE, value |-> i] : i \in {0} \cap (0..(nb_rigid_contacts - 1)) }

\* self.model.rigidContactAcceleration(q, qdot, qddot, idx, updateKin): as
\* the queries above, at the kinematics the flag selects
rigidContactAcceleration(kin, q, qdot, qddot, idx, updateKin) ==
    LET at == IF updateKin THEN q ELSE kin
    IN  [kin |-> at, value |-> [type |-> "biorbd.Vector3d", val |-> <<at, qdot + qddot, idx>>]]

\* rigid_contact_acceleration(q, qdot, qddot, idx=None, updateKin=True)
rigid_contact_acceleration(kin, q, qdot, qddot, idx, updateKin) ==
    LET i == Bind(idx, IdxNone)
        flag == Bind(updateKin, TRUE)
    IN  Converted(Engine(1, "rigidContactAcceleration", kin,
                         rigidContactAcceleration(kin, q, qdot, qddot, i, flag)),
                  <<"rigidContactAcceleration", q, qdot, qddot, i, flag>>)

\* markers(*args): without arguments the engine's bound method itself, else
\* [m.to_mx() for m in self.model.markers(*args)]
markers(kin, arguments) ==
    IF Len(arguments) = 0
    THEN [ raised |-> "none", value |-> [type |-> "method", name |-> "markers"],
           kin |-> kin, calls |-> <<>> ]
    ELSE LET e == Engine(1, "markers", kin, model_markers(kin, arguments[1]))
         IN  [ raised |-> e.raised,
               value  |-> IF e.raised = "none"
                          THEN [k \in 1..Len(e.value) |-> to_mx(e.value[k])] ELSE None,
               kin    |-> e.kin,
               calls  |-> << <<"markers", arguments[1]>> >> ]

\* self.model.marker(q, i): the position of the marker at a Python index; the
\* engine recomputes its kinematics at q (its own default)
model_marker(kin, q, i) ==
    [kin |-> q, value |-> [type |-> "biorbd.NodeSegment", val |-> <<i + 1, q, 0>>]]

\* The arguments a call of marker may carry: none, q, or q and the Python
\* index of a marker.
MarkerArgs ==
    {<<>>} \cup { <<q>> : q \in Configs }
           \cup { <<q, i>> : q \in Configs, i \in {0, nb_markers - 1} }

\* marker(*args): with more than one argument self.model.marker(*args), else
\* the engine's bound method itself
marker_of_any_argument(kin, arguments) ==
    IF Len(arguments) > 0
    THEN Forwarded(Engine(1, "marker", kin,
                          model_marker(kin, arguments[1],
                                       IF Len(arguments) > 1 THEN arguments[2] ELSE 0)),
                   <<"marker">> \o arguments)
    ELSE [ raised |-> "none", value |-> [type |-> "method", name |-> "marker"],
           kin |-> kin, calls |-> <<>> ]
marker(kin, arguments) ==
    IF Len(arguments) > 1
    THEN Forwarded(Engine(1, "marker", kin, model_marker(kin, arguments[1], arguments[2])),
                   <<"marker">> \o arguments)
    ELSE [ raised |-> "none", value |-> [type |-> "method", name |-> "marker"],
           kin |-> kin, calls |-> <<>> ]

\* ---------------------------------------------------------------- dynamics

\* Python's None where it is passed as an argument, tagged with its type as
\* the native vectors passed in its place are.
NoneArg == [type |-> "NoneType"]

\* The external forces and the contact forces a caller passes.
ExternalForces == [type |-> "biorbd.VecBiorbdSpatialVector", val |-> 3]
ContactForces == [type |-> "biorbd.VecBiorbdVector", val |-> 5]
EmptyContactForces == [type |-> "biorbd.VecBiorbdVector", val |-> 0]

\* An optional force as a call may give it: None, a force, or not at all.
Unset == [type |-> "unset"]
ForceArgs(force) == { [given |-> TRUE, value |-> NoneArg], [given |-> TRUE, value |-> force],
                      [given |-> FALSE, value |-> Unset] }

\* The coordinates and velocities the queries of several arguments are asked
\* at: pairs (q, qdot).
Motions == {<<0, 1>>, <<1, 0>>}
\* Generalized forces and accelerations, opaque to the adapter as q and qdot
\* are.
Efforts == {2}
\* The activations and excitations of the muscles.
MuscleStates == {1}

\* What a force contributes to the engine's result: nothing when it is None.
ForceTerm(f) == IF f.type = "NoneType" THEN 0 ELSE f.val

\* The engine's dynamics are outside the repository.  Each stands here as a
\* vector that depends on every argument the engine is given, on the gravity
\* the model holds and on the model's structure, and not on the kinematics
\* the engine holds: the engine recomputes them at q.
ForwardDynamics(grav, q, qdot, tau, fext, f_contacts) ==
    [ kin   |-> q,
      value |-> Vector("biorbd.GeneralizedAcceleration", nb_qddot,
                       tau - qdot + grav[3] * (q + 1) + ForceTerm(fext)
                         + 2 * ForceTerm(f_contacts)) ]
ForwardDynamicsFreeFloatingBase(grav, q, qdot, qddot_joints) ==
    [ kin   |-> q,
      value |-> Vector("biorbd.GeneralizedAcceleration", nb_root,
                       qddot_joints + qdot + grav[3] * (q + 1)) ]
ForwardDynamicsConstraintsDirect(grav, arguments) ==
    [ kin   |-> arguments[1],
      value |-> Vector("biorbd.GeneralizedAcceleration", nb_qddot,
                       arguments[3] - arguments[2] + grav[3] * (arguments[1] + 1)
                         - nb_contacts
                         + (IF Len(arguments) > 3 THEN ForceTerm(arguments[4]) ELSE 0)) ]
InverseDynamics(grav, q, qdot, qddot, f_ext, f_contacts) ==
    [ kin   |-> q,
      value |-> Vector("biorbd.GeneralizedTorque", nb_tau,
                       qddot + qdot - grav[3] * (q + 1) - ForceTerm(f_ext)
                         - 2 * ForceTerm(f_contacts)) ]
ContactForcesFromForwardDynamicsConstraintsDirect(grav, q, qdot, tau, fext) ==
    [ kin   |-> q,
      value |-> Vector("biorbd.Vector", nb_contacts,
                       tau + qdot - grav[3] * (q + 1) + ForceTerm(fext)) ]
ComputeConstraintImpulsesDirect(q, qdot_pre_impact) ==
    [ kin   |-> q,
      value |-> Vector("biorbd.GeneralizedVelocity", nb_qdot,
                       qdot_pre_impact * (q + 1) - nb_contacts) ]

forward_dynamics_free_floating_base(kin, grav, q, qdot, qddot_joints) ==
    Converted(Engine(1, "ForwardDynamicsFreeFloatingBase", kin,
                     ForwardDynamicsFreeFloatingBase(grav, q, qdot, qddot_joints)),
              <<"ForwardDynamicsFreeFloatingBase", q, qdot, qddot_joints>>)

\* forward_dynamics(q, qdot, tau, fext=None, f_contacts=None)
forward_dynamics_at_cached_kinematics(kin, grav, q, qdot, tau, fext, f_contacts) ==
    LET f == Bind(fext, NoneArg)
        c == Bind(f_contacts, NoneArg)
    IN  Converted(Engine(1, "ForwardDynamics", kin,
                         ForwardDynamics(grav, kin, qdot, tau, f, c)),
                  <<"ForwardDynamics", q, qdot, tau, f, c>>)
forward_dynamics_empty_contacts(kin, grav, q, qdot, tau, fext, f_contacts) ==
    LET f == Bind(fext, NoneArg)
        c == Bind(f_contacts, EmptyContactForces)
    IN  Converted(Engine(1, "ForwardDynamics", kin,
                         ForwardDynamics(grav, q, qdot, tau, f, c)),
                  <<"ForwardDynamics", q, qdot, tau, f, c>>)
forward_dynamics(kin, grav, q, qdot, tau, fext, f_contacts) ==
    LET f == Bind(fext, NoneArg)
        c == Bind(f_contacts, NoneArg)
    IN  Converted(Engine(1, "ForwardDynamics", kin,
                         ForwardDynamics(grav, q, qdot, tau, f, c)),
                  <<"ForwardDynamics", q, qdot, tau, f, c>>)

\* constrained_forward_dynamics(*args) forwards its arguments
constrained_forward_dynamics(kin, grav, arguments) ==
    Converted(Engine(1, "ForwardDynamicsConstraintsDirect", kin,
                     ForwardDynamicsConstraintsDirect(grav, arguments)),
              <<"ForwardDynamicsConstraintsDirect">> \o arguments)

\* inverse_dynamics(q, qdot, qddot, f_ext=None, f_contacts=None)
inverse_dynamics(kin, grav, q, qdot, qddot, f_ext, f_contacts) ==
    LET f == Bind(f_ext, NoneArg)
        c == Bind(f_contacts, NoneArg)
    IN  Converted(Engine(1, "InverseDynamics", kin,
                         InverseDynamics(grav, q, qdot, qddot, f, c)),
                  <<"InverseDynamics", q, qdot, qddot, f, c>>)

\* contact_forces_from_constrained_forward_dynamics(q, qdot, tau, fext=None)
contact_forces_from_constrained_forward_dynamics(kin, grav, q, qdot, tau, fext) ==
    LET f == Bind(fext, NoneArg)
    IN  Converted(Engine(1, "ContactForcesFromForwardDynamicsConstraintsDirect", kin,
                         ContactForcesFromForwardDynamicsConstraintsDirect(
                             grav, q, qdot, tau, f)),
                  <<"ContactForcesFromForwardDynamicsConstraintsDirect", q, qdot, tau, f>>)

qdot_from_impact(kin, q, qdot_pre_impact) ==
    Converted(Engine(1, "ComputeConstraintImpulsesDirect", kin,
                     ComputeConstraintImpulsesDirect(q, qdot_pre_impact)),
              <<"ComputeConstraintImpulsesDirect", q, qdot_pre_impact>>)

\* ----------------------------------------------------------------- muscles

\* self.model.activationDot(muscle_states): one derivative per muscle
activationDot(kin, muscle_states) ==
    [kin |-> kin, value |-> Vector("biorbd.Vector", nb_muscles, muscle_states)]

\* self.model.muscularJointTorque(muscle_states, q, qdot): the engine places
\* the muscles at q
muscularJointTorque(muscle_states, q, qdot) ==
    [ kin   |-> q,
      value |-> Vector("biorbd.GeneralizedTorque", nb_tau,
                       nb_muscles * muscle_states * (q + 1) - qdot) ]

muscle_activation_dot(kin, muscle_states) ==
    Converted(Engine(1, "activationDot", kin, activationDot(kin, muscle_states)),
              <<"activationDot", muscle_states>>)

muscle_joint_torque(kin, muscle_states, q, qdot) ==
    Converted(Engine(1, "muscularJointTorque", kin,
                     muscularJointTorque(muscle_states, q, qdot)),
              <<"muscularJointTorque", muscle_states, q, qdot>>)

\* ----------------------------------------------------------------- gravity

\* self.model.getGravity()
getGravity(grav) == [type |-> "biorbd.Vector3d", val |-> grav]

\* gravity: self.model.getGravity().to_mx()
gravity_as_built(kin, grav) ==
    Converted(Engine(1, "getGravity", kin, [kin |-> kin, value |-> getGravity(ModelGravity)]),
              <<"getGravity">>)
gravity(kin, grav) ==
    Converted(Engine(1, "getGravity", kin, [kin |-> kin, value |-> getGravity(grav)]),
              <<"getGravity">>)

\* set_gravity(newGravity): return self.model.setGravity(newGravity).  The
\* engine stores the vector and returns nothing; the adapter's attributes
\* are not assigned.
set_gravity_keeping_copy(self, grav, newGravity) ==
    [ self    |-> [model |-> self.model, gravity |-> newGravity],
      gravity |-> newGravity.val,
      raised  |-> "none",
      value   |-> None,
      calls   |-> << <<"setGravity", newGravity>> >> ]
set_gravity(self, grav, newGravity) ==
    [ self    |-> self,
      gravity |-> newGravity.val,
      raised  |-> "none",
      value   |-> None,
      calls   |-> << <<"setGravity", newGravity>> >> ]

\* ----------------------------------------------------------------- actions

\* The state after BiorbdModel(arg), the native model wrapped having the
\* structure given.
Constructed(arg, structure) ==
    /\ bio_model = arg
    /\ adapter = BiorbdModel(arg)
    /\ model = structure
    /\ engineGravity = ModelGravity
    /\ kinQ \in Configs
    /\ op = "init"
    /\ args = <<>>
    /\ result = None
    /\ raised = "none"
    /\ calls = <<>>
    /\ copies = <<>>

Init ==
    /\ bio_model = CallerModel
    /\ adapter = BiorbdModel(bio_model)
    /\ model \in Models
    /\ engineGravity = ModelGravity
    /\ kinQ \in Configs
    /\ failAt = 0
    /\ op = "init"
    /\ args = <<>>
    /\ result = None
    /\ raised = "none"
    /\ calls = <<>>
    /\ copies = <<>>

ReshapeFextToFcontact ==
    \E base \in FextBases, n \in 0..(SumLen(model.rigidContactAxes) + MaxExtra) :
        LET fext == Ramp(base, n)
            r == reshape_fext_to_fcontact(fext)
        IN  /\ op' = "reshape_fext_to_fcontact"
            /\ args' = [fext |-> fext]
            /\ result' = r.value
            /\ raised' = r.raised
            /\ calls' = r.calls
            /\ UNCHANGED <<bio_model, adapter, model, engineGravity, kinQ, failAt, copies>>

SoftContactForces ==
    \E q \in Configs, qdot \in Velocities :
        LET r == soft_contact_forces(kinQ, q, qdot)
        IN  /\ op' = "soft_contact_forces"
            /\ args' = [q |-> q, qdot |-> qdot]
            /\ result' = r.value
            /\ raised' = r.raised
            /\ calls' = r.calls
            /\ kinQ' = r.kin
            /\ UNCHANGED <<bio_model, adapter, model, engineGravity, failAt, copies>>

MarkerVelocities ==
    \E q \in Configs, qdot \in Velocities, update_kin \in BOOLEAN,
       reference_jcs \in {RefNone} \cup (0..(nb_segments - 1)) :
        LET r == marker_velocities(kinQ, q, qdot, update_kin, reference_jcs)
        IN  /\ op' = "marker_velocities"
            /\ args' = [q |-> q, qdot |-> qdot, update_kin |-> update_kin,
                        reference_jcs |-> reference_jcs]
            /\ result' = r.value
            /\ raised' = r.raised
            /\ calls' = r.calls
            /\ kinQ' = r.kin
            /\ UNCHANGED <<bio_model, adapter, model, engineGravity, failAt, copies>>

\* An accessor or a query that leaves the native model as it is.
ReturnsRefreshed(name, arguments, r, made) ==
    /\ op' = name
    /\ args' = arguments
    /\ result' = r.value
    /\ raised' = r.raised
    /\ calls' = made
    /\ kinQ' = 0
    /\ UNCHANGED <<bio_model, adapter, model, engineGravity, failAt, copies>>
Returns(name, arguments, r, made) ==
    /\ op' = name
    /\ args' = arguments
    /\ result' = r.value
    /\ raised' = r.raised
    /\ calls' = made
    /\ UNCHANGED <<bio_model, adapter, model, engineGravity, kinQ, failAt, copies>>

\* A query that may move the engine's cached kinematics.
Queried(name, arguments, r) ==
    /\ op' = name
    /\ args' = arguments
    /\ result' = r.value
    /\ raised' = r.raised
    /\ calls' = r.calls
    /\ kinQ' = r.kin
    /\ UNCHANGED <<bio_model, adapter, model, engineGravity, failAt, copies>>

Value(v) == [raised |-> "none", value |-> v]

MarkerIndex ==
    \E name \in MarkerNameSet \cup {AbsentName} :
        Returns("marker_index", [name |-> name], marker_index(name),
                << <<"markerNames">> >>)

MarkerNames == Returns("marker_names", <<>>, Value(marker_names), << <<"markerNames">> >>)

NbMarkers == Returns("nb_markers", <<>>, Value(nb_markers), << <<"nbMarkers">> >>)

NameDof == Returns("name_dof", <<>>, Value(name_dof), << <<"nameDof">> >>)

NbQ == Returns("nb_q", <<>>, Value(nb_q), << <<"nbQ">> >>)

Next ==
    \/ ReshapeFextToFcontact
    \/ MarkerIndex
    \/ MarkerNames
    \/ NbMarkers
    \/ NameDof
    \/ NbQ
    \/ MarkerVelocities
    \/ SoftContactForces

Spec == Init /\ [][Next]_vars

\* ------------------------------------------------- the rest of the adapter

NbQdot == Returns("nb_qdot", <<>>, Value(nb_qdot), << <<"nbQdot">> >>)

NbQddot == Returns("nb_qddot", <<>>, Value(nb_qddot), << <<"nbQddot">> >>)

NbDof == Returns("nb_dof", <<>>, Value(nb_dof), << <<"nbDof">> >>)

NbTau == Returns("nb_tau", <<>>, Value(nb_tau), << <<"nbGeneralizedTorque">> >>)

NbRoot == Returns("nb_root", <<>>, Value(nb_root), << <<"nbRoot">> >>)

NbQuaternions == Returns("nb_quaternions", <<>>, Value(nb_quaternions), << <<"nbQuat">> >>)

NbSegments == Returns("nb_segments", <<>>, Value(nb_segments), << <<"nbSegment">> >>)

NbMuscles == Returns("nb_muscles", <<>>, Value(nb_muscles), << <<"nbMuscles">> >>)

NbContacts == Returns("nb_contacts", <<>>, Value(nb_contacts), << <<"nbContacts">> >>)

NbRigidContacts ==
    Returns("nb_rigid_contacts", <<>>, Value(nb_rigid_contacts), << <<"nbRigidContacts">> >>)

NbSoftContacts ==
    Returns("nb_soft_contacts", <<>>, Value(nb_soft_contacts), << <<"nbSoftContacts">> >>)

MuscleNames == Returns("muscle_names", <<>>, Value(muscle_names), << <<"muscleNames">> >>)

ContactNames == Returns("contact_names", <<>>, Value(contact_names), << <<"contactNames">> >>)

SoftContactNames ==
    Returns("soft_contact_names", <<>>, Value(soft_contact_names),
            << <<"softContactNames">> >>)

Gravity == Queried("gravity", <<>>, gravity(kinQ, engineGravity))

SetGravity ==
    \E g \in Gravities :
        LET newGravity == [type |-> "biorbd.Vector3d", val |-> g]
            r == set_gravity(adapter, engineGravity, newGravity)
        IN  /\ op' = "set_gravity"
            /\ args' = [newGravity |-> newGravity]
            /\ result' = r.value
            /\ raised' = r.raised
            /\ calls' = r.calls
            /\ adapter' = r.self
            /\ engineGravity' = r.gravity
            /\ UNCHANGED <<bio_model, model, kinQ, failAt, copies>>

CenterOfMass ==
    \E q \in Configs, updateKin \in FlagArgs :
        Queried("center_of_mass", [q |-> q, updateKin |-> updateKin],
                center_of_mass(kinQ, q, updateKin))

CenterOfMassVelocity ==
    \E q \in Configs, qdot \in Velocities, updateKin \in FlagArgs :
        /\ <<q, qdot>> \in Motions
        /\ Queried("center_of_mass_velocity", [q |-> q, qdot |-> qdot, updateKin |-> updateKin],
                   center_of_mass_velocity(kinQ, q, qdot, updateKin))

CenterOfMassAcceleration ==
    \E q \in Configs, qdot \in Velocities, qddot \in Efforts, updateKin \in FlagArgs :
        /\ <<q, qdot>> \in Motions
        /\ Queried("center_of_mass_acceleration",
                   [q |-> q, qdot |-> qdot, qddot |-> qddot, updateKin |-> updateKin],
                   center_of_mass_acceleration(kinQ, q, qdot, qddot, updateKin))

AngularMomentum ==
    \E Q \in Configs, Qdot \in Velocities, updateKin \in FlagArgs :
        /\ <<Q, Qdot>> \in Motions
        /\ Queried("angular_momentum", [Q |-> Q, Qdot |-> Qdot, updateKin |-> updateKin],
                   angular_momentum(kinQ, Q, Qdot, updateKin))

SegmentAngularVelocity ==
    \E Q \in Configs, Qdot \in Velocities, idx \in 0..(nb_segments - 1),
       updateKin \in FlagArgs :
        /\ <<Q, Qdot>> \in Motions
        /\ Queried("segment_angular_velocity",
                   [Q |-> Q, Qdot |-> Qdot, idx |-> idx, updateKin |-> updateKin],
                   segment_angular_velocity(kinQ, Q, Qdot, idx, updateKin))

RigidContactAcceleration ==
    \E q \in Configs, qdot \in Velocities, qddot \in Efforts, idx \in ContactIdxArgs,
       updateKin \in FlagArgs :
        /\ <<q, qdot>> \in Motions
        /\ Queried("rigid_contact_acceleration",
                   [q |-> q, qdot |-> qdot, qddot |-> qddot, idx |-> idx,
                    updateKin |-> updateKin],
                   rigid_contact_acceleration(kinQ, q, qdot, qddot, idx, updateKin))

Markers ==
    \E arguments \in {<<>>} \cup { <<q>> : q \in Configs } :
        Queried("markers", [args |-> arguments], markers(kinQ, arguments))

Marker ==
    \E arguments \in MarkerArgs :
        Queried("marker", [args |-> arguments], marker(kinQ, arguments))

ForwardDynamicsFreeFloatingBaseCall ==
    \E q \in Configs, qdot \in Velocities, qddot_joints \in Efforts :
        /\ <<q, qdot>> \in Motions
        /\ Queried("forward_dynamics_free_floating_base",
                   [q |-> q, qdot |-> qdot, qddot_joints |-> qddot_joints],
                   forward_dynamics_free_floating_base(kinQ, engineGravity, q, qdot,
                                                       qddot_joints))

ForwardDynamicsCall ==
    \E q \in Configs, qdot \in Velocities, tau \in Efforts,
       fext \in ForceArgs(ExternalForces), f_contacts \in ForceArgs(ContactForces) :
        /\ <<q, qdot>> \in Motions
        /\ Queried("forward_dynamics",
                   [q |-> q, qdot |-> qdot, tau |-> tau, fext |-> fext,
                    f_contacts |-> f_contacts],
                   forward_dynamics(kinQ, engineGravity, q, qdot, tau, fext, f_contacts))

ConstrainedForwardDynamicsCall ==
    \E q \in Configs, qdot \in Velocities, tau \in Efforts :
        \E arguments \in {<<q, qdot, tau>>, <<q, qdot, tau, NoneArg>>,
                           <<q, qdot, tau, ExternalForces>>} :
            /\ <<q, qdot>> \in Motions
            /\ Queried("constrained_forward_dynamics", [args |-> arguments],
                       constrained_forward_dynamics(kinQ, engineGravity, arguments))

InverseDynamicsCall ==
    \E q \in Configs, qdot \in Velocities, qddot \in Efforts,
       f_ext \in ForceArgs(ExternalForces), f_contacts \in ForceArgs(ContactForces) :
        /\ <<q, qdot>> \in Motions
        /\ Queried("inverse_dynamics",
                   [q |-> q, qdot |-> qdot, qddot |-> qddot, f_ext |-> f_ext,
                    f_contacts |-> f_contacts],
                   inverse_dynamics(kinQ, engineGravity, q, qdot, qddot, f_ext, f_contacts))

ContactForcesCall ==
    \E q \in Configs, qdot \in Velocities, tau \in Efforts,
       fext \in ForceArgs(ExternalForces) :
        /\ <<q, qdot>> \in Motions
        /\ Queried("contact_forces_from_constrained_forward_dynamics",
                   [q |-> q, qdot |-> qdot, tau |-> tau, fext |-> fext],
                   contact_forces_from_constrained_forward_dynamics(
                       kinQ, engineGravity, q, qdot, tau, fext))

QdotFromImpact ==
    \E q \in Configs, qdot_pre_impact \in Velocities :
        /\ <<q, qdot_pre_impact>> \in Motions
        /\ Queried("qdot_from_impact", [q |-> q, qdot_pre_impact |-> qdot_pre_impact],
                   qdot_from_impact(kinQ, q, qdot_pre_impact))

MuscleActivationDot ==
    \E muscle_states \in MuscleStates :
        Queried("muscle_activation_dot", [muscle_states |-> muscle_states],
                muscle_activation_dot(kinQ, muscle_states))

MuscleJointTorque ==
    \E muscle_states \in MuscleStates, q \in Configs, qdot \in Velocities :
        /\ <<q, qdot>> \in Motions
        /\ Queried("muscle_joint_torque",
                   [muscle_states |-> muscle_states, q |-> q, qdot |-> qdot],
                   muscle_joint_torque(kinQ, muscle_states, q, qdot))

\* The operations that compute with the engine.
Computations ==
    \/ SoftContactForces
    \/ MarkerVelocities
    \/ CenterOfMass
    \/ CenterOfMassVelocity
    \/ CenterOfMassAcceleration
    \/ AngularMomentum
    \/ SegmentAngularVelocity
    \/ RigidContactAcceleration
    \/ Markers
    \/ Marker
    \/ ForwardDynamicsFreeFloatingBaseCall
    \/ ForwardDynamicsCall
    \/ ConstrainedForwardDynamicsCall
    \/ InverseDynamicsCall
    \/ ContactForcesCall
    \/ QdotFromImpact
    \/ MuscleActivationDot
    \/ MuscleJointTorque

\* An adapter constructed from a path or from a caller's native model, the
\* engine not failing.
AdapterInit ==
    /\ failAt = 0
    /\ \E arg \in CtorArgs :
          \E structure \in (IF isinstance_str(arg) THEN {ModelFiles[arg.chars]}
                              ELSE CallerModels) :
              Constructed(arg, structure)

AdapterNext ==
    \/ Next
    \/ NbQdot
    \/ NbQddot
    \/ NbDof
    \/ NbTau
    \/ NbRoot
    \/ NbQuaternions
    \/ NbSegments
    \/ NbMuscles
    \/ NbContacts
    \/ NbRigidContacts
    \/ NbSoftContacts
    \/ MuscleNames
    \/ ContactNames
    \/ SoftContactNames
    \/ Gravity
    \/ SetGravity
    \/ Computations

AdapterSpec == AdapterInit /\ [][AdapterNext]_vars

\* The queries that take the update flag, on an adapter constructed either
\* way, the engine not failing.
KinematicsQueries ==
    \/ CenterOfMass
    \/ CenterOfMassVelocity
    \/ CenterOfMassAcceleration
    \/ AngularMomentum
    \/ SegmentAngularVelocity
    \/ RigidContactAcceleration
    \/ MarkerVelocities

KinematicsSpec == AdapterInit /\ [][KinematicsQueries]_vars

\* BiorbdModel(arg): a caller constructs another adapter, which the state
\* follows from then on; a constructor that raises leaves no new adapter.  A
\* native model handed over holds the gravity its caller gave it.
ConstructAdapter ==
    \E arg \in AnyCtorArgs :
        LET r == Construction(arg)
        IN  /\ op' = "BiorbdModel"
            /\ args' = [bio_model |-> arg]
            /\ result' = None
            /\ raised' = r.raised
            /\ calls' = r.calls
            /\ IF r.raised = "none"
               THEN /\ bio_model' = arg
                    /\ adapter' = r.self
                    /\ model' \in StructuresBehind(arg)
                    /\ engineGravity' \in (IF arg.type = "biorbd.Model" THEN Gravities
                                            ELSE {ModelGravity})
                    /\ kinQ' \in Configs
               ELSE UNCHANGED <<bio_model, adapter, model, engineGravity, kinQ>>
            /\ UNCHANGED <<failAt, copies>>

\* The constructor alone, called with whatever a caller may pass.
ConstructorSpec == AdapterInit /\ [][ConstructAdapter]_vars

\* What the native model an adapter wraps holds: the original's model when
\* the handle refers to it, else the copy's own.
Held(c) ==
    IF c.adapter.model = adapter.model
    THEN [gravity |-> engineGravity, kinQ |-> kinQ]
    ELSE [gravity |-> c.gravity, kinQ |-> c.kinQ]

\* deep_copy(): the copy holds the gravity and the kinematics the original
\* holds when it is made
DeepCopyCall ==
    /\ Len(copies) < MaxCopies
    /\ LET r == deep_copy(adapter, Len(copies) + 1)
       IN  /\ op' = "deep_copy"
           /\ args' = <<>>
           /\ result' = r.value
           /\ raised' = r.raised
           /\ calls' = r.calls
           /\ copies' = Append(copies, [adapter |-> r.value, gravity |-> engineGravity,
                                        kinQ |-> kinQ])
           /\ UNCHANGED <<bio_model, adapter, model, engineGravity, kinQ, failAt>>

\* An operation called on the i-th copy, after which the native model that
\* copy wraps holds the gravity and the kinematics given.
OnCopy(i, newGravity, newKin) ==
    LET c == copies[i]
        shared == c.adapter.model = adapter.model
    IN  /\ copies' = [copies EXCEPT ![i] =
                         IF shared THEN c
                         ELSE [c EXCEPT !.gravity = newGravity, !.kinQ = newKin]]
        /\ engineGravity' = IF shared THEN newGravity ELSE engineGravity
        /\ kinQ' = IF shared THEN newKin ELSE kinQ
        /\ UNCHANGED <<bio_model, adapter, model, failAt, op, args, result, raised, calls>>

CopySetGravity ==
    \E i \in 1..Len(copies), g \in Gravities :
        LET held == Held(copies[i])
            r == set_gravity(copies[i].adapter, held.gravity,
                             [type |-> "biorbd.Vector3d", val |-> g])
        IN  OnCopy(i, r.gravity, held.kinQ)

CopyCenterOfMass ==
    \E i \in 1..Len(copies), q \in Configs, updateKin \in FlagArgs :
        LET held == Held(copies[i])
            r == center_of_mass(held.kinQ, q, updateKin)
        IN  OnCopy(i, held.gravity, r.kin)

\* An adapter, the copies made of it, and the operations on each that set
\* or read what a native model holds.
CopyNext ==
    \/ DeepCopyCall
    \/ SetGravity
    \/ Gravity
    \/ CenterOfMass
    \/ CopySetGravity
    \/ CopyCenterOfMass

CopySpec == AdapterInit /\ [][CopyNext]_vars

\* Adapters constructed from a path, the engine failing at one of the calls
\* of every operation.
FaultInit ==
    /\ failAt \in 1..MaxFailAt
    /\ \E path \in DOMAIN ModelFiles : Constructed(Str(path), ModelFiles[path])

FaultSpec == FaultInit /\ [][Computations]_vars

\* ---------------------------------------------- reshape_fext_to_fcontact

\* The sum of the axis counts of the model's rigid contacts.
AxisSum == SumLen(model.rigidContactAxes)

\* The sum of the axis counts of the rigid contacts 0..ii-1.
AxisOffset(ii) == SumLen(SubSeq(model.rigidContactAxes, 1, ii))

Reshaped == op = "reshape_fext_to_fcontact" /\ raised = "none"

\* C1: for a flat force vector whose length is the sum of the rigid
\* contacts' axis counts, reshape_fext_to_fcontact returns, and the blocks it
\* returns, concatenated in the order they were appended, are the vector
\* itself: same elements, same order, same length.
C1_ConcatReconstructs ==
    (op = "reshape_fext_to_fcontact" /\ Len(args.fext) = AxisSum)
        => (raised = "none" /\ Concat(result) = args.fext)

C1_Witness ==
    /\ Reshaped
    /\ Len(args.fext) = AxisSum
    /\ Len(result) = 2
    /\ Len(result[1]) > 1

\* C2: reshape_fext_to_fcontact returns one block per rigid contact, the
\* contacts walked in index order, and block ii holds the elements of fext at
\* the Python positions c_ii .. c_ii + n_ii - 1, n_ii the axis count of
\* contact ii and c_ii the sum of the axis counts of the contacts before it.
C2_ContiguousBlocks ==
    Reshaped =>
        /\ Len(result) = nb_rigid_contacts
        /\ calls = <<<<"nbRigidContacts">>>>
                     \o [k \in 1..nb_rigid_contacts |-> <<"rigidContactAxisIdx", k - 1>>]
        /\ \A ii \in 0..(nb_rigid_contacts - 1) :
              LET n_ii == Len(model.rigidContactAxes[ii + 1])
                  c_ii == AxisOffset(ii)
              IN  /\ Len(result[ii + 1]) = n_ii
                  /\ c_ii + n_ii <= Len(args.fext)
                  /\ \A j \in 1..n_ii : result[ii + 1][j] = args.fext[c_ii + j]

C2_Witness ==
    /\ Reshaped
    /\ Len(result) = 2
    /\ Len(result[1]) = 3
    /\ Len(result[2]) = 1
    /\ result[2][1] = args.fext[4]

\* C3 as stated: whenever reshape_fext_to_fcontact returns, the sum of the
\* rigid contacts' axis counts equals the length of the flat vector.
C3_SumEqualsLength == Reshaped => AxisSum = Len(args.fext)

\* C3 as amended: whenever reshape_fext_to_fcontact returns, the sum of the
\* rigid contacts' axis counts is at most the length of the flat vector, and
\* every element at a position below that sum is placed in some block.
C3_SumAtMostLength ==
    Reshaped =>
        /\ AxisSum <= Len(args.fext)
        /\ \A p \in 1..AxisSum :
              \E ii \in 1..Len(result) : \E j \in 1..Len(result[ii]) :
                  result[ii][j] = args.fext[p]

C3_Witness ==
    /\ Reshaped
    /\ AxisSum >= 2
    /\ Len(args.fext) = AxisSum + 1

\* ----------------------------------------------------- soft_contact_forces

SoftForcesReturned == op = "soft_contact_forces" /\ raised = "none"

ForceCalls == { k \in 1..Len(calls) : calls[k][1] = "computeForceAtOrigin" }

\* C4: soft_contact_forces returns a casadi column of 6 * nb_soft_contacts
\* rows; for a model without soft contacts it makes no engine force
\* computation and returns the empty vector, no row of which is non-zero.
C4_SoftForcesLength ==
    op = "soft_contact_forces" =>
        /\ raised = "none"
        /\ result.type = "MX"
        /\ Len(result.val) = 6 * nb_soft_contacts
        /\ nb_soft_contacts = 0 =>
              /\ ForceCalls = {}
              /\ result.val = <<>>
              /\ \A r \in 1..Len(result.val) : result.val[r] = 0

C4_Witness ==
    /\ SoftForcesReturned
    /\ nb_soft_contacts = 2
    /\ Len(result.val) = 12

C4_WitnessNoContact ==
    /\ SoftForcesReturned
    /\ nb_soft_contacts = 0
    /\ result.val = <<>>

\* C5: in the vector soft_contact_forces returns, rows 6*i .. 6*i+5 hold the
\* wrench at the origin the engine computed for soft contact i, and the
\* engine was asked for each contact's wrench once, in contact index order.
C5_WrenchRows ==
    SoftForcesReturned =>
        /\ Len(result.val) = 6 * nb_soft_contacts
        /\ \A i \in 0..(nb_soft_contacts - 1) : \A k \in 1..6 :
              result.val[6 * i + k]
                = computeForceAtOrigin([index |-> i], args.q, args.qdot).value.val[k]
        /\ calls = << <<"nbSoftContacts">>, <<"nbSoftContacts">> >>
                     \o [n \in 1..(2 * nb_soft_contacts) |->
                           IF n % 2 = 1 THEN <<"softContact", (n - 1) \div 2>>
                           ELSE <<"computeForceAtOrigin", (n - 2) \div 2>>]

C5_Witness ==
    /\ SoftForcesReturned
    /\ nb_soft_contacts = 2
    /\ result.val[1] # result.val[7]
    /\ result.val[3] # 0
    /\ result.val[2] = 0

\* ------------------------------------------------------- marker_velocities

FrameVelocities ==
    op = "marker_velocities" /\ raised = "none" /\ args.reference_jcs # RefNone

\* C6: marker_velocities called with a reference frame whose global
\* homogeneous transform is the identity returns the matrix that
\* marker_velocities called with no reference frame, on the same model state
\* and with the same q, qdot and update flag, returns.
C6_NoFrameEqualsIdentityFrame ==
    [][ ( /\ op' = "marker_velocities"
          /\ raised' = "none"
          /\ args'.reference_jcs # RefNone
          /\ SegmentJCS(args'.reference_jcs, args'.q) = RotoTransIdentity )
        => result' = marker_velocities(kinQ, args'.q, args'.qdot,
                                       args'.update_kin, RefNone).value ]_vars

\* C7: with a reference frame, marker_velocities returns one column per
\* marker, in marker index order, and column k is the engine's velocity of
\* marker k transformed by the transpose of the frame's global homogeneous
\* transform at q.
C7_FrameColumns ==
    FrameVelocities =>
        LET jcs_t == transpose(SegmentJCS(args.reference_jcs, args.q))
            vel == markersVelocity(kinQ, args.q, args.qdot, FALSE).value
        IN  /\ result.type = "MX"
            /\ Len(result.val) = nb_markers
            /\ \A k \in 1..nb_markers :
                  result.val[k] = VecAdd(MatVec(jcs_t.R, vel[k].val), jcs_t.t)

C7_Witness ==
    /\ FrameVelocities
    /\ nb_markers = 3
    /\ SegmentJCS(args.reference_jcs, args.q) # RotoTransIdentity
    /\ result.val[1] # result.val[3]
    /\ result.val[2] # <<2, kinQ + 1, args.qdot>>

\* -------------------------------------------------------- names and counts

\* C8: for every name in marker_names, marker_index(name) returns a Python
\* index of marker_names, and marker_names at that index is the name.
C8_MarkerIndexRoundTrip ==
    ( /\ op = "marker_index"
      /\ \E k \in 1..Len(marker_names) : marker_names[k] = args.name )
        => /\ raised = "none"
           /\ result \in 0..(Len(marker_names) - 1)
           /\ marker_names[result + 1] = args.name

C8_Witness ==
    /\ op = "marker_index"
    /\ raised = "none"
    /\ result = 1
    /\ Len(marker_names) = 3
    /\ marker_names[3] # args.name

\* C9: nb_markers is the length of the tuple marker_names returns.
C9_NbMarkersIsLength ==
    /\ op = "nb_markers" => result = Len(marker_names)
    /\ op = "marker_names" => Len(result) = nb_markers

C9_Witness ==
    /\ op = "marker_names"
    /\ Len(result) = 2
    /\ result[1] = result[2]

\* C10: nb_q is the length of the tuple name_dof returns, also for a model
\* with quaternion-parameterized segments.
C10_NbQIsLength ==
    /\ op = "nb_q" => result = Len(name_dof)
    /\ op = "name_dof" => Len(result) = nb_q

C10_Witness ==
    /\ op = "name_dof"
    /\ nb_quaternions = 1
    /\ Len(result) = 5
    /\ result[5] = "s1_QuatW"

\* ------------------------------------------------ the types of the results

\* The operations that compute kinematics or dynamics.
KinematicsAndDynamics ==
    { "center_of_mass", "center_of_mass_velocity", "center_of_mass_acceleration",
      "angular_momentum", "segment_angular_velocity", "markers", "marker_velocities",
      "forward_dynamics", "forward_dynamics_free_floating_base",
      "constrained_forward_dynamics", "inverse_dynamics",
      "contact_forces_from_constrained_forward_dynamics", "qdot_from_impact",
      "muscle_activation_dot", "muscle_joint_torque" }

\* C11: every kinematics or dynamics operation that returns, returns a casadi
\* MX, or a list of MX for the marker positions asked at some q; none returns
\* a native object of the engine.
C11_ReturnsMatrixType ==
    (op \in KinematicsAndDynamics /\ raised = "none") =>
        IF op = "markers" /\ Len(args.args) > 0
        THEN \A k \in 1..Len(result) : result[k].type = "MX"
        ELSE result.type = "MX"

\* ------------------------------------------------------ dynamics are pure

DynamicsOps ==
    { "forward_dynamics", "forward_dynamics_free_floating_base",
      "constrained_forward_dynamics", "inverse_dynamics",
      "contact_forces_from_constrained_forward_dynamics", "qdot_from_impact" }

DynamicsReturned == op \in DynamicsOps /\ raised = "none"

\* What the engine computes for a dynamics operation called with the
\* arguments a on this model holding the gravity grav: a value in which the
\* kinematics the engine holds, and what was asked before, have no part.
DynamicsResult(name, a, grav) ==
    CASE name = "forward_dynamics" ->
            to_mx(ForwardDynamics(grav, a.q, a.qdot, a.tau, Bind(a.fext, NoneArg),
                                  Bind(a.f_contacts, NoneArg)).value)
      [] name = "forward_dynamics_free_floating_base" ->
            to_mx(ForwardDynamicsFreeFloatingBase(grav, a.q, a.qdot, a.qddot_joints).value)
      [] name = "constrained_forward_dynamics" ->
            to_mx(ForwardDynamicsConstraintsDirect(grav, a.args).value)
      [] name = "inverse_dynamics" ->
            to_mx(InverseDynamics(grav, a.q, a.qdot, a.qddot, Bind(a.f_ext, NoneArg),
                                  Bind(a.f_contacts, NoneArg)).value)
      [] name = "contact_forces_from_constrained_forward_dynamics" ->
            to_mx(ContactForcesFromForwardDynamicsConstraintsDirect(
                      grav, a.q, a.qdot, a.tau, Bind(a.fext, NoneArg)).value)
      [] name = "qdot_from_impact" ->
            to_mx(ComputeConstraintImpulsesDirect(a.q, a.qdot_pre_impact).value)

\* C12 as stated: a dynamics operation returns a value fixed by its arguments
\* and the structure the model was built with (its gravity included), so that
\* two calls with equal arguments return equal results whatever operations,
\* set_gravity among them, ran in between: the value is the one the call
\* returns on the model as it was built.
C12_PureOfArguments ==
    DynamicsReturned => result = DynamicsResult(op, args, ModelGravity)

\* C12 as amended: a dynamics operation returns a value fixed by its
\* arguments, the structure of the model and the gravity the model holds at
\* the call; the kinematics the engine holds, whichever queries moved them
\* with either value of the update flag, have no part in it.
C12_PureOfArgumentsAndGravity ==
    DynamicsReturned => result = DynamicsResult(op, args, engineGravity)

C12_Witness ==
    /\ op = "forward_dynamics"
    /\ raised = "none"
    /\ engineGravity # ModelGravity
    /\ kinQ # 0
    /\ args.q = 1
    /\ Len(result.val) > 1
    /\ result # DynamicsResult(op, args, ModelGravity)

\* ------------------------------------------------------ counts are constant

CountAccessors ==
    { "nb_q", "nb_qdot", "nb_qddot", "nb_dof", "nb_tau", "nb_root", "nb_quaternions",
      "nb_segments", "nb_markers", "nb_muscles", "nb_contacts", "nb_rigid_contacts",
      "nb_soft_contacts" }

\* What each count accessor returns on the model as it is.
Counts ==
    [ nb_q |-> nb_q, nb_qdot |-> nb_qdot, nb_qddot |-> nb_qddot, nb_dof |-> nb_dof,
      nb_tau |-> nb_tau, nb_root |-> nb_root, nb_quaternions |-> nb_quaternions,
      nb_segments |-> nb_segments, nb_markers |-> nb_markers, nb_muscles |-> nb_muscles,
      nb_contacts |-> nb_contacts, nb_rigid_contacts |-> nb_rigid_contacts,
      nb_soft_contacts |-> nb_soft_contacts ]

\* C13: no operation of the adapter changes what any count accessor returns,
\* and a count accessor returns that count and leaves the adapter and the
\* native model (structure, gravity, cached kinematics) as they were.
C13_CountsConstant ==
    [][ /\ Counts' = Counts
        /\ op' \in CountAccessors =>
              /\ result' = Counts[op']
              /\ raised' = "none"
              /\ UNCHANGED <<adapter, model, engineGravity, kinQ>> ]_vars

C13_Witness ==
    /\ op = "nb_contacts"
    /\ result = 4
    /\ engineGravity # ModelGravity
    /\ kinQ = 1

\* ------------------------------------------------------- names are stable

\* What each name accessor returns on the model as it is.
Names ==
    [ marker_names |-> marker_names, muscle_names |-> muscle_names,
      contact_names |-> contact_names, soft_contact_names |-> soft_contact_names,
      name_dof |-> name_dof ]

\* C14: no operation of the adapter changes the tuple any name accessor
\* returns (the same names at the same indices) nor the index marker_index
\* gives to a name, and each of these operations returns that tuple or index.
C14_NamesStable ==
    [][ /\ Names' = Names
        /\ \A name \in MarkerNameSet \cup {AbsentName} :
              marker_index(name)' = marker_index(name)
        /\ op' \in DOMAIN Names => result' = Names[op']
        /\ (op' = "marker_index" /\ raised' = "none") =>
              result' = marker_index(args'.name).value ]_vars

C14_Witness ==
    /\ op = "contact_names"
    /\ result = <<"contact0_Z", "contact1_X", "contact1_Y", "contact1_Z">>
    /\ engineGravity # ModelGravity
    /\ kinQ = 1

\* --------------------------------------------- names are the engine's names

\* The engine's name sequence behind each name accessor.
EngineNames ==
    [ marker_names |-> model.markers, muscle_names |-> muscleNames,
      contact_names |-> contactNames, soft_contact_names |-> softContactNames,
      name_dof |-> nameDof ]

\* C15: a name accessor returns a tuple of str as long as the engine's name
\* sequence, whose element k is the string the engine's k-th name holds: no
\* name is dropped, repeated or moved.
C15_NamesAreEngineNames ==
    op \in DOMAIN EngineNames =>
        /\ raised = "none"
        /\ Len(result) = Len(EngineNames[op])
        /\ \A k \in 1..Len(result) :
              /\ k <= Len(EngineNames[op])
              /\ result[k] \in STRING
              /\ result[k] = to_string(EngineNames[op][k])

C15_Witness ==
    /\ op = "muscle_names"
    /\ result = <<"triceps", "biceps">>
    /\ EngineNames[op][1].type = "biorbd.String"

\* ------------------------------------------------- the engine's failures

\* The engine call each dynamics operation makes.
DynamicsCall ==
    [ forward_dynamics |-> "ForwardDynamics",
      forward_dynamics_free_floating_base |-> "ForwardDynamicsFreeFloatingBase",
      constrained_forward_dynamics |-> "ForwardDynamicsConstraintsDirect",
      inverse_dynamics |-> "InverseDynamics",
      contact_forces_from_constrained_forward_dynamics |->
          "ContactForcesFromForwardDynamicsConstraintsDirect",
      qdot_from_impact |-> "ComputeConstraintImpulsesDirect" ]

\* C16: a dynamics operation makes its engine call whatever its arguments
\* are, and nothing else; when that call fails the operation raises the
\* engine's error as it is and returns nothing, and when it does not fail the
\* operation does not raise.
C16_EngineErrorUnmodified ==
    op \in DynamicsOps =>
        /\ Len(calls) = 1
        /\ calls[1][1] = DynamicsCall[op]
        /\ EngineFails(1) => (raised = EngineError(DynamicsCall[op]) /\ result = None)
        /\ ~EngineFails(1) => raised = "none"

C16_Witness ==
    /\ op = "inverse_dynamics"
    /\ EngineFails(1)
    /\ raised = "RuntimeError: InverseDynamics"
    /\ result = None

\* C17: when the engine call that fails is among the calls an operation
\* makes, it is the last call the operation makes, the operation raises that
\* call's error and returns nothing; and no operation makes the same engine
\* call twice, but for the count of the soft contacts, which
\* soft_contact_forces reads twice.
C17_NoRetryNoPartialResult ==
    /\ (op # "init" /\ failAt >= 1 /\ Len(calls) >= failAt) =>
          /\ Len(calls) = failAt
          /\ raised = EngineError(calls[failAt][1])
          /\ result = None
    /\ \A i \in 1..Len(calls) : \A j \in (i + 1)..Len(calls) :
          calls[i][1] = calls[j][1] =>
              (calls[i][1] = "nbSoftContacts" \/ calls[i] # calls[j])

C17_Witness ==
    /\ op = "soft_contact_forces"
    /\ failAt = 6
    /\ raised = "RuntimeError: computeForceAtOrigin"
    /\ calls[4] = <<"computeForceAtOrigin", 0>>
    /\ calls[6] = <<"computeForceAtOrigin", 1>>
    /\ Len(calls) = 6

C17_WitnessFrame ==
    /\ op = "marker_velocities"
    /\ args.reference_jcs # RefNone
    /\ raised = "RuntimeError: globalJCS"
    /\ calls = << <<"globalJCS", args.reference_jcs>> >>

\* -------------------------------------------------- the adapter's reference

\* C18: in every reachable state the adapter has the one attribute it was
\* constructed with, its reference to the native model, and that reference is
\* the one the constructor fixed: no operation assigns it again or stores
\* anything else on the adapter.
C18_OnlyTheReference ==
    /\ DOMAIN adapter = {"model"}
    /\ adapter.model = BiorbdModel(bio_model).model

C18_Witness ==
    /\ op = "set_gravity"
    /\ engineGravity # ModelGravity
    /\ kinQ = 1
    /\ adapter = [model |-> CallerModel]

\* The gravity read through a handle to a native model: the gravity of the
\* model the adapter wraps when the handle refers to that model, and the
\* gravity of a model nothing was done to otherwise.
GravityThrough(handle) ==
    IF handle.id = adapter.model.id THEN engineGravity ELSE ModelGravity

\* C19: an adapter constructed from a str wraps a native model the engine
\* built from that path, which is no object of the caller's; an adapter
\* constructed from a native model wraps that very object, so that the
\* gravity set_gravity sets is the gravity read through the caller's handle.
C19_WrapsPathOrHandle ==
    /\ isinstance_str(bio_model) =>
          /\ adapter.model = biorbd_Model(bio_model)
          /\ adapter.model # CallerModel
          /\ model = ModelFiles[bio_model.chars]
    /\ ~isinstance_str(bio_model) =>
          /\ adapter.model = bio_model
          /\ op = "set_gravity" => GravityThrough(bio_model) = args.newGravity.val

C19_Witness ==
    /\ bio_model = CallerModel
    /\ op = "set_gravity"
    /\ args.newGravity.val = <<0, 0, -2>>
    /\ GravityThrough(bio_model) = <<0, 0, -2>>

C19_WitnessPath ==
    /\ bio_model = Str("arm.bioMod")
    /\ op = "nb_markers"
    /\ result = 3

\* ------------------------------------------------------ the default forces

\* An optional force as the engine is to receive it: None when the call
\* omits it.
OrNone(arg) == IF arg.given THEN arg.value ELSE NoneArg
Explicit(arg) == [given |-> TRUE, value |-> OrNone(arg)]

\* C20: forward_dynamics, inverse_dynamics and
\* contact_forces_from_constrained_forward_dynamics hand the engine None for
\* every force argument the call omits, and return what the call that passes
\* None in its place returns.
C20_OmittedForcesAreNone ==
    /\ (op = "forward_dynamics" /\ raised = "none") =>
          /\ calls = << <<"ForwardDynamics", args.q, args.qdot, args.tau,
                          OrNone(args.fext), OrNone(args.f_contacts)>> >>
          /\ result = forward_dynamics(kinQ, engineGravity, args.q, args.qdot, args.tau,
                                       Explicit(args.fext), Explicit(args.f_contacts)).value
    /\ (op = "inverse_dynamics" /\ raised = "none") =>
          /\ calls = << <<"InverseDynamics", args.q, args.qdot, args.qddot,
                          OrNone(args.f_ext), OrNone(args.f_contacts)>> >>
          /\ result = inverse_dynamics(kinQ, engineGravity, args.q, args.qdot, args.qddot,
                                       Explicit(args.f_ext), Explicit(args.f_contacts)).value
    /\ (op = "contact_forces_from_constrained_forward_dynamics" /\ raised = "none") =>
          /\ calls = << <<"ContactForcesFromForwardDynamicsConstraintsDirect",
                          args.q, args.qdot, args.tau, OrNone(args.fext)>> >>
          /\ result = contact_forces_from_constrained_forward_dynamics(
                          kinQ, engineGravity, args.q, args.qdot, args.tau,
                          Explicit(args.fext)).value

C20_Witness ==
    /\ op = "forward_dynamics"
    /\ raised = "none"
    /\ args.fext = [given |-> TRUE, value |-> ExternalForces]
    /\ ~args.f_contacts.given
    /\ calls[1][5] = ExternalForces
    /\ calls[1][6] = NoneArg
    /\ Len(result.val) > 1

\* ------------------------------------------- the elements reshape reads

\* The first n elements of a vector.
Prefix(fext, n) == SubSeq(fext, 1, n)

\* C26: reshape_fext_to_fcontact reads the first S elements of fext only, S
\* the sum of the rigid contacts' axis counts: a vector of S elements or more
\* is reshaped without error into the blocks its prefix of length S is
\* reshaped into, and on a model without rigid contacts every vector is
\* reshaped into the empty structure.
C26_ReadsOnlyThePrefix ==
    (op = "reshape_fext_to_fcontact" /\ Len(args.fext) >= AxisSum) =>
        /\ raised = "none"
        /\ result = reshape_fext_to_fcontact(Prefix(args.fext, AxisSum)).value
        /\ Concat(result) = Prefix(args.fext, AxisSum)
        /\ nb_rigid_contacts = 0 => result = <<>>

C26_Witness ==
    /\ Reshaped
    /\ nb_rigid_contacts = 2
    /\ Len(args.fext) = AxisSum + 1
    /\ Concat(result) # args.fext
    /\ Concat(result) = Prefix(args.fext, AxisSum)

C26_WitnessNoContact ==
    /\ Reshaped
    /\ nb_rigid_contacts = 0
    /\ Len(args.fext) = 1
    /\ result = <<>>

\* ------------------------------------------------- the loops and their ends

\* The iterations the loop of the last operation began: one engine call of
\* the given name is made at the head of each.
Iterations(name) == Cardinality({ k \in 1..Len(calls) : calls[k][1] = name })

\* C21: an operation is over when the engine calls it makes are, and these
\* are bounded by the model's counts: reshape_fext_to_fcontact reads the count
\* of the rigid contacts once and begins at most nb_rigid_contacts iterations,
\* soft_contact_forces reads the count of the soft contacts twice and begins
\* at most nb_soft_contacts iterations of two engine calls; each begins
\* exactly as many iterations as the count when it returns.
C21_LoopsRunToTheirCount ==
    /\ op = "reshape_fext_to_fcontact" =>
          /\ Iterations("rigidContactAxisIdx") <= nb_rigid_contacts
          /\ Len(calls) = 1 + Iterations("rigidContactAxisIdx")
          /\ raised = "none" => Iterations("rigidContactAxisIdx") = nb_rigid_contacts
    /\ op = "soft_contact_forces" =>
          /\ Iterations("softContact") <= nb_soft_contacts
          /\ Iterations("computeForceAtOrigin") <= Iterations("softContact")
          /\ Len(calls) = Iterations("nbSoftContacts") + Iterations("softContact")
                            + Iterations("computeForceAtOrigin")
          /\ raised = "none" =>
                /\ Iterations("nbSoftContacts") = 2
                /\ Iterations("softContact") = nb_soft_contacts
                /\ Iterations("computeForceAtOrigin") = nb_soft_contacts

C21_Witness ==
    /\ op = "soft_contact_forces"
    /\ raised = "none"
    /\ nb_soft_contacts = 2
    /\ Iterations("softContact") = 2
    /\ Len(calls) = 6

C21_WitnessReshape ==
    /\ op = "reshape_fext_to_fcontact"
    /\ raised = "none"
    /\ nb_rigid_contacts = 2
    /\ Iterations("rigidContactAxisIdx") = 2

C21_WitnessCutShort ==
    /\ op = "reshape_fext_to_fcontact"
    /\ raised = "IndexError"
    /\ nb_rigid_contacts = 2
    /\ Iterations("rigidContactAxisIdx") = 1

\* ------------------------------------------- the composition with the frame

VelocitiesReturned == op = "marker_velocities" /\ raised = "none"

\* The transforms the last call of marker_velocities composed the engine's
\* velocities with: they are fixed by the arguments of the call.
Composed ==
    marker_velocities(kinQ, args.q, args.qdot, args.update_kin, args.reference_jcs).composed

\* The velocities the engine returned to the last call of marker_velocities:
\* those at the kinematics the call left.
EngineVelocities == markersVelocity(kinQ, args.q, args.qdot, FALSE).value

\* C24 as stated: every call of marker_velocities that returns composed each
\* marker's velocity with a transform, the identity when no frame is given.
C24_ComposedOnEveryCall ==
    VelocitiesReturned =>
        /\ Len(Composed) = nb_markers
        /\ args.reference_jcs = RefNone =>
              \A k \in 1..Len(Composed) : Composed[k] = RotoTransIdentity

\* C24 as amended: a call of marker_velocities with a frame composed each
\* marker's velocity with the transpose of the frame's transform at q; a call
\* without a frame composed nothing and returns the engine's velocities as
\* they are, which are the columns the composition with the identity gives.
C24_ComposedOnlyWithFrame ==
    VelocitiesReturned =>
        IF args.reference_jcs = RefNone
        THEN /\ Composed = <<>>
             /\ result = horzcat([k \in 1..nb_markers |-> to_mx(EngineVelocities[k])])
             /\ result = horzcat(TransformedColumns(EngineVelocities, RotoTransIdentity))
        ELSE /\ Len(Composed) = nb_markers
             /\ \A k \in 1..Len(Composed) :
                   Composed[k] = transpose(SegmentJCS(args.reference_jcs, args.q))

C24_Witness ==
    /\ VelocitiesReturned
    /\ args.reference_jcs = RefNone
    /\ nb_markers = 3
    /\ Composed = <<>>
    /\ Len(result.val) = 3

C24_WitnessFrame ==
    /\ VelocitiesReturned
    /\ args.reference_jcs = 1
    /\ nb_markers = 2
    /\ Composed[2] # RotoTransIdentity

\* ------------------------------------------------------ marker(*args)

\* The engine's marker method, not called.
MarkerMethod == [type |-> "method", name |-> "marker"]

\* C25: marker called with two arguments or more makes one engine call, of
\* the engine's marker with these arguments, and returns what that call
\* returns; called with no argument or with one it makes no engine call and
\* returns the engine's marker method itself, whatever the argument is.
C25_MarkerCallsWithTwoArguments ==
    op = "marker" =>
        IF Len(args.args) > 1
        THEN /\ calls = << <<"marker">> \o args.args >>
             /\ raised = "none" =>
                   result = model_marker(kinQ, args.args[1], args.args[2]).value
        ELSE /\ calls = <<>>
             /\ raised = "none"
             /\ result = MarkerMethod

C25_Witness ==
    /\ op = "marker"
    /\ args.args = <<1>>
    /\ calls = <<>>
    /\ result = MarkerMethod
    /\ kinQ = 0

C25_WitnessPosition ==
    /\ op = "marker"
    /\ args.args = <<1, 2>>
    /\ raised = "none"
    /\ result.val = <<3, 1, 0>>

\* ------------------------------------------------------- the update flag

\* The kinematics operations that take the update flag.
FlagOps ==
    { "center_of_mass", "center_of_mass_velocity", "center_of_mass_acceleration",
      "angular_momentum", "segment_angular_velocity", "rigid_contact_acceleration",
      "marker_velocities" }

\* The flag a call of one of them asks for: the one it gives, else True.
Flag(name, a) ==
    IF name = "marker_velocities" THEN a.update_kin ELSE Bind(a.updateKin, TRUE)

\* The coordinates a call of one of them is made at.
AskedAt(name, a) ==
    IF name \in {"angular_momentum", "segment_angular_velocity"} THEN a.Q ELSE a.q

\* C22: a call of a kinematics operation with the update flag False that
\* returns has left the engine's cached kinematics where they were, so also
\* a call of marker_velocities with a reference frame.
C22_FlagFalseKeepsKinematics ==
    [][ ( /\ op' \in FlagOps
          /\ raised' = "none"
          /\ ~Flag(op', args') )
        => kinQ' = kinQ ]_vars

\* What the engine computes for a kinematics query with the arguments a when
\* the kinematics it evaluates on are those of the coordinates at.
KinematicsValue(name, a, at) ==
    CASE name = "center_of_mass" -> to_mx(CoM(at, a.q, FALSE).value)
      [] name = "center_of_mass_velocity" -> to_mx(CoMdot(at, a.q, a.qdot, FALSE).value)
      [] name = "center_of_mass_acceleration" ->
            to_mx(CoMddot(at, a.q, a.qdot, a.qddot, FALSE).value)
      [] name = "angular_momentum" -> angularMomentum(at, a.Q, a.Qdot, FALSE).value
      [] name = "segment_angular_velocity" ->
            segmentAngularVelocity(at, a.Q, a.Qdot, a.idx, FALSE).value
      [] name = "rigid_contact_acceleration" ->
            to_mx(rigidContactAcceleration(at, a.q, a.qdot, a.qddot,
                                           Bind(a.idx, IdxNone), FALSE).value)
      [] name = "marker_velocities" ->
            horzcat([k \in 1..nb_markers |->
                       to_mx(markersVelocity(at, a.q, a.qdot, FALSE).value[k])])

\* The last argument of the last engine call made.
ForwardedFlag(made) == made[Len(made)][Len(made[Len(made)])]

C23_WitnessDefault ==
    /\ op = "rigid_contact_acceleration"
    /\ ~args.updateKin.given
    /\ ~args.idx.given
    /\ calls = << <<"rigidContactAcceleration", 1, 0, 2, IdxNone, TRUE>> >>
    /\ kinQ = 1

\* ------------------------------------------------- gravity, set and read

\* C28: set_gravity(g) makes g the gravity the model holds and leaves every
\* count and every name as it was; no other operation changes the gravity the
\* model holds; and gravity returns the gravity the model holds.  Hence a read
\* returns the g of the last set_gravity before it, whatever ran in between.
C28_GravityIsTheLastSet ==
    [][ /\ op' = "set_gravity" =>
              /\ raised' = "none"
              /\ engineGravity' = args'.newGravity.val
              /\ Counts' = Counts
              /\ Names' = Names
        /\ op' # "set_gravity" => engineGravity' = engineGravity
        /\ (op' = "gravity" /\ raised' = "none") =>
              (result'.type = "MX" /\ result'.val = engineGravity') ]_vars

C28_Witness ==
    /\ op = "gravity"
    /\ raised = "none"
    /\ result.val = <<0, 0, -2>>
    /\ result.val # ModelGravity
    /\ kinQ = 1

\* ------------------------------------------------- what the constructor takes

\* C29: the constructor calls the engine's loader when its argument is a str
\* and only then; any other argument, a pathlib.Path or an object that is no
\* model among them, becomes the wrapped model as it is, and that
\* construction does not raise.
C29_OnlyStrIsAPath ==
    op = "BiorbdModel" =>
        IF isinstance_str(args.bio_model)
        THEN /\ calls = << <<"biorbd.Model", args.bio_model.chars>> >>
             /\ raised = "none" => adapter.model = biorbd_Model(args.bio_model)
        ELSE /\ calls = <<>>
             /\ raised = "none"
             /\ bio_model = args.bio_model
             /\ adapter = [model |-> args.bio_model]

C29_Witness ==
    /\ op = "BiorbdModel"
    /\ args.bio_model = PathObject("arm.bioMod")
    /\ raised = "none"
    /\ calls = <<>>
    /\ adapter.model.type = "pathlib.Path"

C29_WitnessNotAModel ==
    /\ op = "BiorbdModel"
    /\ args.bio_model.type = "int"
    /\ raised = "none"
    /\ adapter.model = args.bio_model

C29_WitnessLoaderFails ==
    /\ op = "BiorbdModel"
    /\ args.bio_model = Str("missing.bioMod")
    /\ raised # "none"

\* ------------------------------------------------------------- deep_copy

\* What an adapter answers when the native model it wraps holds the gravity
\* and the kinematics given: the gravity, a query that reads the cached
\* kinematics, a dynamics query, the counts and the names.
Answers(held) ==
    [ gravity |-> gravity(held.kinQ, held.gravity).value,
      center_of_mass |->
          center_of_mass(held.kinQ, 0, [given |-> TRUE, value |-> FALSE]).value,
      forward_dynamics |->
          forward_dynamics(held.kinQ, held.gravity, 1, 0, 2,
                           [given |-> FALSE, value |-> Unset],
                           [given |-> FALSE, value |-> Unset]).value,
      counts |-> Counts,
      names |-> Names ]

\* What the original adapter answers, and what each of its copies does.
OriginalAnswers == Answers([gravity |-> engineGravity, kinQ |-> kinQ])
CopyAnswers == [i \in 1..Len(copies) |-> Answers(Held(copies[i]))]

\* C27: deep_copy returns an adapter that wraps a native model other than
\* the original's and answers as the original does when the copy is made; it
\* leaves the original's reference and answers as they were.  An operation on
\* a copy changes no answer of the original, and an operation on the original
\* changes no answer of a copy.
C27_CopyIsIndependent ==
    [][ /\ DeepCopyCall =>
              /\ result'.model # adapter.model
              /\ adapter' = adapter
              /\ OriginalAnswers' = OriginalAnswers
              /\ CopyAnswers'[Len(copies')] = OriginalAnswers
        /\ (CopySetGravity \/ CopyCenterOfMass) =>
              /\ adapter' = adapter
              /\ OriginalAnswers' = OriginalAnswers
        /\ (SetGravity \/ Gravity \/ CenterOfMass) =>
              /\ Len(copies') = Len(copies)
              /\ CopyAnswers' = CopyAnswers ]_vars

C27_Witness ==
    /\ Len(copies) = 1
    /\ copies[1].adapter.model # adapter.model
    /\ copies[1].gravity = <<0, 0, -2>>
    /\ engineGravity = ModelGravity
    /\ op = "gravity"
    /\ result.val = ModelGravity

C27_WitnessOriginalSet ==
    /\ Len(copies) = 1
    /\ copies[1].gravity = ModelGravity
    /\ copies[1].kinQ # kinQ
    /\ engineGravity = <<0, 0, -2>>
    /\ op = "set_gravity"

====
